---- MODULE Spec2Model ----
(***************************************************************************)
(* Local persistence layer of visual-ai-content-studio:                    *)
(*   src/src/utils/localStorage.js  - the Key-Value Store                  *)
(*   src/src/utils/indexedDB.js     - the Document Store                   *)
(*   src/src/utils/dataStorage.js   - the Storage Facade                   *)
(*                                                                         *)
(* JavaScript strings whose ordering matters (ids, ISO timestamps) are     *)
(* sequences of UTF-16 code units; JavaScript values held by the           *)
(* Key-Value Store are tagged records (Undef, Null, NaN, Str, Arr, Obj).   *)
(***************************************************************************)
EXTENDS Integers, Sequences, FiniteSets, TLC

VARIABLES
    now,            \* the clock read by Date.now() / new Date()
    lsItems,        \* localStorage: key -> stored text (present keys only)
    lsEnabled,      \* FALSE: every localStorage access throws
    lsOther,        \* quota units taken by other data of the same origin
    idbPresent,     \* 'indexedDB' in window && window.indexedDB !== null
    faulty,         \* object stores whose requests currently fail
    dbInstance,     \* indexedDB.js: the cached connection ("null" or "open")
    dbVersion,      \* the schema version of the stored database (0: none)
    dbStores,       \* the object stores (collections) the database holds
    dbIndexes,      \* store name -> the indexes the object store has
    db,             \* store name -> (id -> record)
    isInitialized,  \* dataStorage.js: the facade's flag
    maint,          \* the performMaintenance call in flight
    issued,         \* the ids generated for records saved without one, in order
    ret,            \* the last completed call: its inputs and its result
    conns,          \* the connections opened since the page loaded, in order
    cached,         \* indexedDB.js: which of them dbInstance is (0: null)
    opening,        \* the calls whose open request is pending, in request order
    calls,          \* the document store calls begun since then, in call order
    txQueue         \* the calls whose transaction waits to run, in creation order

vars == <<now, lsItems, lsEnabled, lsOther, idbPresent, faulty, dbInstance,
          dbVersion, dbStores, dbIndexes, db, isInitialized, maint, issued,
          ret, conns, cached, opening, calls, txQueue>>

kvVars == <<lsItems, lsEnabled, lsOther>>
docVars == <<idbPresent, faulty, dbInstance, dbVersion, dbStores, dbIndexes, db>>
rtVars == <<conns, cached, opening, calls, txQueue>>

----------------------------------------------------------------------------
(* Bounds of the model *)

MaxNow == 3         \* the clock stops advancing here (one tick: one day)
MaxImages == 3      \* records the images collection may hold
MaxLayouts == 1     \* records the layouts collection may hold
MaxIssued == 3      \* saves without an id in one run
MaxLimit == 2       \* largest limit passed to getRecentImages
MaxDaysOld == 2     \* largest daysOld passed to performMaintenance
Quota == 64         \* localStorage quota of the origin, in units
TightRoom == 4      \* units other data of the origin leaves when it is large
MaxLogged == 52     \* errors logged in one run
MaxCalls == 3       \* document store calls begun after one page load

----------------------------------------------------------------------------
(* Strings as sequences of code units *)

RECURSIVE StrLess(_, _)
\* JavaScript `a < b` on two strings, and IndexedDB's order of string keys:
\* lexicographic by code unit, a proper prefix first.
StrLess(a, b) ==
    IF b = <<>> THEN FALSE
    ELSE IF a = <<>> THEN TRUE
    ELSE IF Head(a) # Head(b) THEN Head(a) < Head(b)
    ELSE StrLess(Tail(a), Tail(b))

IsDigit(c) == c >= 48 /\ c <= 57

\* String(n) for a non-negative integer below 100: decimal, no padding.
DecStr(n) == IF n < 10 THEN <<48 + n>> ELSE <<48 + (n \div 10), 48 + (n % 10)>>

\* Date.prototype.toISOString: a fixed-width rendering of the instant, so
\* that string order is time order. Two digits stand for the 24 characters.
toISOString(t) == <<48 + (t \div 10), 48 + (t % 10)>>

\* new Date(s): the instant a string denotes, or an Invalid Date (NaN).
DateParse(s) ==
    IF Len(s) = 2 /\ IsDigit(s[1]) /\ IsDigit(s[2])
    THEN [ok |-> TRUE, ms |-> (s[1] - 48) * 10 + (s[2] - 48)]
    ELSE [ok |-> FALSE, ms |-> 0]

----------------------------------------------------------------------------
(* JavaScript values and JSON text *)

Undef == [undef |-> TRUE]
Null == [null |-> TRUE]
NaN == [nan |-> TRUE]
Circular == [circular |-> TRUE]       \* an object that refers to itself
Bool(b) == [bool |-> b]
Str(s) == [str |-> s]
Arr(q) == [arr |-> q]
Obj(f) == [obj |-> f]

IsUndef(v) == "undef" \in DOMAIN v
IsStr(v) == "str" \in DOMAIN v
IsArr(v) == "arr" \in DOMAIN v
IsObj(v) == "obj" \in DOMAIN v

\* ToBoolean(v), as `if (data.brandKit)` applies it.
Truthy(v) ==
    IF IsStr(v) THEN v.str # ""
    ELSE IF "bool" \in DOMAIN v THEN v.bool
    ELSE IsArr(v) \/ IsObj(v) \/ "circular" \in DOMAIN v

\* v.field of an object (undefined when the key is absent).
Field(v, k) == IF IsObj(v) /\ k \in DOMAIN v.obj THEN v.obj[k] ELSE Undef

RECURSIVE JsonValue(_)
\* The value JSON.stringify writes for v inside a document: undefined and NaN
\* array elements become null, keys whose value is undefined are dropped.
JsonValue(v) ==
    IF IsArr(v)
    THEN Arr([i \in 1..Len(v.arr) |->
                IF IsUndef(v.arr[i]) THEN Null ELSE JsonValue(v.arr[i])])
    ELSE IF IsObj(v)
    THEN Obj([k \in {x \in DOMAIN v.obj : ~IsUndef(v.obj[x])} |->
                JsonValue(v.obj[k])])
    ELSE IF v = NaN THEN Null
    ELSE v

RECURSIVE HasCycle(_)
HasCycle(v) ==
    IF IsArr(v) THEN \E i \in 1..Len(v.arr) : HasCycle(v.arr[i])
    ELSE IF IsObj(v) THEN \E k \in DOMAIN v.obj : HasCycle(v.obj[k])
    ELSE v = Circular

\* JSON.stringify(v) followed by the String() coercion of localStorage.setItem:
\* a JSON text, the text "undefined" for undefined, or a TypeError.
Stringify(v) ==
    IF HasCycle(v) THEN [throws |-> "TypeError"]
    ELSE IF IsUndef(v) THEN [raw |-> "undefined"]
    ELSE [json |-> JsonValue(v)]

\* JSON.parse(text): the value, or a SyntaxError for a text that is not JSON.
Parse(text) ==
    IF "json" \in DOMAIN text THEN [ok |-> TRUE, value |-> text.json]
    ELSE [ok |-> FALSE, value |-> Undef]

RECURSIVE SumOver(_, _)
SumOver(f, S) ==
    IF S = {} THEN 0
    ELSE LET k == CHOOSE x \in S : TRUE IN f[k] + SumOver(f, S \ {k})

RECURSIVE JsonLen(_)
\* Length of a JSON text, in quota units.
JsonLen(v) ==
    IF IsArr(v)
    THEN 1 + SumOver([i \in 1..Len(v.arr) |-> JsonLen(v.arr[i])], 1..Len(v.arr))
    ELSE IF IsObj(v)
    THEN 1 + SumOver([k \in DOMAIN v.obj |-> 1 + JsonLen(v.obj[k])], DOMAIN v.obj)
    ELSE 1

TextLen(text) == IF "json" \in DOMAIN text THEN JsonLen(text.json) ELSE 1

\* A value JSON represents exactly: no undefined, NaN or cycle inside it.
IsJson(v) == ~HasCycle(v) /\ ~IsUndef(v) /\ JsonValue(v) = v

----------------------------------------------------------------------------
(* Key-Value Store: localStorage.js *)

STORAGE_KEYS ==
    [BRAND_KIT |-> "visualai_brand_kit",
     USER_INFO |-> "visualai_user_info",
     CAMPAIGN_VARIABLE |-> "visualai_campaign_variable",
     APP_PREFERENCES |-> "visualai_app_preferences",
     RECENT_PROMPTS |-> "visualai_recent_prompts"]

Keys == {STORAGE_KEYS[n] : n \in DOMAIN STORAGE_KEYS}

\* The default each category's get passes to getStorageItem.
BrandKitDefault ==
    Obj([colors |-> Arr(<<Str("#000000"), Str("#ffffff"), Str("#cccccc")>>),
         typography |-> Str(""),
         styleKeywords |-> Arr(<<>>)])
UserInfoDefault ==
    Obj([companyName |-> Str(""), primaryPlatform |-> Str(""),
         socialHandle |-> Str(""), missionBio |-> Str("")])
CampaignVariableDefault == Str("")
AppPreferencesDefault ==
    Obj([theme |-> Str("light"), autoSave |-> Bool(TRUE),
         notifications |-> Bool(TRUE),
         defaultPlatforms |-> Arr(<<Str("instagram"), Str("tiktok")>>)])
RecentPromptsDefault == Arr(<<>>)

DefaultOf(key) ==
    CASE key = STORAGE_KEYS.BRAND_KIT -> BrandKitDefault
      [] key = STORAGE_KEYS.USER_INFO -> UserInfoDefault
      [] key = STORAGE_KEYS.CAMPAIGN_VARIABLE -> CampaignVariableDefault
      [] key = STORAGE_KEYS.APP_PREFERENCES -> AppPreferencesDefault
      [] OTHER -> RecentPromptsDefault

\* Quota units the stored items take: one per key plus the text.
LsUsed(L) == SumOver([k \in DOMAIN L |-> 1 + TextLen(L[k])], DOMAIN L)

\* localStorage.setItem(key, text) throws: access denied, or QuotaExceededError.
LsSetThrows(L, key, text) ==
    \/ ~lsEnabled
    \/ LsUsed([k \in DOMAIN L \cup {key} |-> IF k = key THEN text ELSE L[k]])
         > Quota - lsOther

\* isLocalStorageAvailable: a throwaway write of a one-unit text, then its
\* removal; any throw is caught and reported as false.
isLocalStorageAvailable(L) ==
    ~LsSetThrows(L, "__localStorage_test__", [raw |-> "__localStorage_test__"])

getStorageItem(L, key, defaultValue) ==
    IF ~isLocalStorageAvailable(L) THEN defaultValue
    ELSE IF key \notin DOMAIN L THEN defaultValue
    ELSE IF Parse(L[key]).ok THEN Parse(L[key]).value
    ELSE defaultValue

\* setStorageItem writing the value without JSON.stringify: setItem coerces an
\* object to the text "[object Object]".
setStorageItemUnserialized(L, key, value) ==
    IF ~isLocalStorageAvailable(L) THEN [ok |-> FALSE, items |-> L]
    ELSE LET text == [raw |-> "[object Object]"] IN
         IF LsSetThrows(L, key, text) THEN [ok |-> FALSE, items |-> L]
         ELSE [ok |-> TRUE,
               items |-> [k \in DOMAIN L \cup {key} |->
                            IF k = key THEN text ELSE L[k]]]

\* The result and the items left by setStorageItem(key, value).
setStorageItem(L, key, value) ==
    IF ~isLocalStorageAvailable(L) THEN [ok |-> FALSE, items |-> L]
    ELSE LET text == Stringify(value) IN
         IF "throws" \in DOMAIN text THEN [ok |-> FALSE, items |-> L]
         ELSE IF LsSetThrows(L, key, text) THEN [ok |-> FALSE, items |-> L]
         ELSE [ok |-> TRUE,
               items |-> [k \in DOMAIN L \cup {key} |->
                            IF k = key THEN text ELSE L[k]]]

removeStorageItem(L, key) ==
    IF ~isLocalStorageAvailable(L) THEN [ok |-> FALSE, items |-> L]
    ELSE [ok |-> TRUE, items |-> [k \in DOMAIN L \ {key} |-> L[k]]]

clearAllStorageData(L) ==
    IF ~isLocalStorageAvailable(L) THEN [ok |-> FALSE, items |-> L]
    ELSE [ok |-> TRUE, items |-> [k \in DOMAIN L \ Keys |-> L[k]]]

\* brandKit.get, userInfo.get, ... : getStorageItem with the category default.
categoryGet(L, key) == getStorageItem(L, key, DefaultOf(key))

----------------------------------------------------------------------------
(* Document Store: indexedDB.js *)

DB_VERSION == 1

STORES == [IMAGES |-> "images", LAYOUTS |-> "layouts", PROJECTS |-> "projects"]

StoreNames == {STORES[n] : n \in DOMAIN STORES}

\* The indexes onupgradeneeded declares for each object store.
IndexNames(storeName) ==
    CASE storeName = STORES.IMAGES -> {"createdAt", "prompt", "platform"}
      [] storeName = STORES.LAYOUTS -> {"imageId", "platform"}
      [] OTHER -> {"name", "createdAt", "updatedAt"}

\* The document side of the state, threaded through a call and its awaits.
World ==
    [inst |-> dbInstance, ver |-> dbVersion, stores |-> dbStores,
     indexes |-> dbIndexes, data |-> db,
     init |-> isInitialized]

isIndexedDBAvailable == idbPresent

\* An upgrade that creates every declared store anew, empty.
UpgradeRecreating(W) ==
    [W EXCEPT !.ver = DB_VERSION,
              !.stores = W.stores \cup StoreNames,
              !.indexes = [n \in StoreNames |-> IndexNames(n)],
              !.data = [n \in StoreNames |-> <<>>]]

\* onupgradeneeded: create the declared stores that are absent, each with its
\* indexes; a store the database holds is left as it is.
Upgrade(W) ==
    [W EXCEPT !.ver = DB_VERSION,
              !.stores = W.stores \cup StoreNames,
              !.indexes = [n \in StoreNames |->
                             IF n \in W.stores THEN W.indexes[n]
                             ELSE IndexNames(n)]]

\* initDatabase: reject when IndexedDB is absent, reuse the cached connection,
\* or open one (running the upgrade when the stored version is lower).
initDatabase(W) ==
    IF ~isIndexedDBAvailable THEN [ok |-> FALSE, w |-> W]
    ELSE IF W.inst # "null" THEN [ok |-> TRUE, w |-> W]
    ELSE [ok |-> TRUE,
          w |-> [(IF W.ver < DB_VERSION THEN Upgrade(W) ELSE W)
                   EXCEPT !.inst = "open"]]

\* getTransaction and the request made in it: db.transaction throws for a store
\* the database does not hold, and a request on a failing store errors.
RequestOk(W, storeName) == storeName \in W.stores /\ storeName \notin faulty

\* A put that patches: fields of the stored record that rec lacks are kept.
PutPatching(f, id, rec) ==
    [i \in DOMAIN f \cup {id} |->
        IF i # id THEN f[i]
        ELSE IF id \notin DOMAIN f THEN rec
        ELSE [k \in DOMAIN f[id] \cup DOMAIN rec |->
                IF k \in DOMAIN rec THEN rec[k] ELSE f[id][k]]]

Put(f, id, rec) == [i \in DOMAIN f \cup {id} |-> IF i = id THEN rec ELSE f[i]]
Del(f, id) == [i \in DOMAIN f \ {id} |-> f[i]]

\* generateId without the clock reading: the random suffix alone.
generateIdNoClock(rnd) == rnd

\* generateId: `${Date.now()}-${Math.random().toString(36).substr(2, 9)}`.
generateId(rnd) == DecStr(now) \o <<45>> \o rnd

\* setItem(storeName, item): fills id, createdAt and updatedAt, then store.put.
\* ok = FALSE is the rejected promise.
setItem(W, storeName, item, rnd) ==
    LET o == initDatabase(W) IN
    IF ~o.ok \/ ~RequestOk(o.w, storeName)
    THEN [ok |-> FALSE, value |-> <<>>, w |-> o.w]
    ELSE LET id == IF item.id = <<>> THEN generateId(rnd) ELSE item.id
             rec == [item EXCEPT
                       !.id = id,
                       !.createdAt = IF item.createdAt = <<>>
                                     THEN toISOString(now) ELSE item.createdAt,
                       !.updatedAt = toISOString(now)]
         IN [ok |-> TRUE, value |-> id,
             w |-> [o.w EXCEPT !.data[storeName] = Put(@, id, rec)]]

\* getItem(storeName, id): the record, or null.
getItem(W, storeName, id) ==
    LET o == initDatabase(W) IN
    IF ~o.ok \/ ~RequestOk(o.w, storeName)
    THEN [ok |-> FALSE, value |-> <<>>, w |-> o.w]
    ELSE [ok |-> TRUE,
          value |-> IF id \in DOMAIN o.w.data[storeName]
                    THEN <<o.w.data[storeName][id]>> ELSE <<>>,
          w |-> o.w]

\* A deleteItem that also deletes the layouts that refer to the record.
deleteItemCascading(W, storeName, id) ==
    LET o == initDatabase(W) IN
    IF ~o.ok \/ ~RequestOk(o.w, storeName)
    THEN [ok |-> FALSE, value |-> FALSE, w |-> o.w]
    ELSE LET f == o.w.data[STORES.LAYOUTS]
             kept == {i \in DOMAIN f : f[i].imageId # id}
         IN [ok |-> TRUE, value |-> TRUE,
             w |-> [o.w EXCEPT !.data[storeName] = Del(@, id),
                               !.data[STORES.LAYOUTS] = [i \in kept |-> f[i]]]]

deleteItem(W, storeName, id) ==
    LET o == initDatabase(W) IN
    IF ~o.ok \/ ~RequestOk(o.w, storeName)
    THEN [ok |-> FALSE, value |-> FALSE, w |-> o.w]
    ELSE [ok |-> TRUE, value |-> TRUE,
          w |-> [o.w EXCEPT !.data[storeName] = Del(@, id)]]

clearStore(W, storeName) ==
    LET o == initDatabase(W) IN
    IF ~o.ok \/ ~RequestOk(o.w, storeName)
    THEN [ok |-> FALSE, value |-> FALSE, w |-> o.w]
    ELSE [ok |-> TRUE, value |-> TRUE,
          w |-> [o.w EXCEPT !.data[storeName] = <<>>]]

\* Order of two records in an index on a string key: by key, then by primary key.
IndexBefore(a, b, field) ==
    \/ StrLess(a[field], b[field])
    \/ a[field] = b[field] /\ StrLess(a.id, b.id)

RECURSIVE InOrder(_, _)
\* The records of set R as IDBIndex.getAll / IDBObjectStore.getAll returns them.
InOrder(R, field) ==
    IF R = {} THEN <<>>
    ELSE LET first == CHOOSE r \in R :
                        \A q \in R \ {r} : IndexBefore(r, q, field)
         IN <<first>> \o InOrder(R \ {first}, field)

Slice(q, n) == IF Len(q) <= n THEN q ELSE SubSeq(q, 1, n)

\* getAllItems(storeName, {orderBy, limit}): through the index when orderBy names
\* one (records without the key are not in an index), else in primary-key
\* order; then the first `limit` of them when limit > 0.
getAllItems(W, storeName, orderBy, limit) ==
    LET o == initDatabase(W) IN
    IF ~o.ok \/ ~RequestOk(o.w, storeName)
    THEN [ok |-> FALSE, value |-> <<>>, w |-> o.w]
    ELSE LET f == o.w.data[storeName]
             all == {f[i] : i \in DOMAIN f}
             results ==
                 IF orderBy # "" /\ orderBy \in o.w.indexes[storeName]
                 THEN InOrder({r \in all : r[orderBy] # <<>>}, orderBy)
                 ELSE InOrder(all, "id")
         IN [ok |-> TRUE,
             value |-> IF limit > 0 THEN Slice(results, limit) ELSE results,
             w |-> o.w]

\* initialize(): initDatabase with its rejection turned into false.
initialize(W) == initDatabase(W)

\* An image record as a caller passes it; <<>> is a field left out (or "").
ImageData(id, createdAt, prompt) ==
    [id |-> id, type |-> "", createdAt |-> createdAt, updatedAt |-> <<>>,
     prompt |-> prompt]

\* images.save(imageData)
imagesSave(W, imageData, rnd) ==
    setItem(W, STORES.IMAGES,
            [imageData EXCEPT
               !.id = IF imageData.id = <<>> THEN generateId(rnd) ELSE imageData.id,
               !.type = "image",
               !.createdAt = IF imageData.createdAt = <<>>
                             THEN toISOString(now) ELSE imageData.createdAt],
            rnd)

\* layouts.save(layoutData)
layoutsSave(W, layoutData, rnd) ==
    setItem(W, STORES.LAYOUTS,
            [layoutData EXCEPT
               !.id = IF layoutData.id = <<>> THEN generateId(rnd) ELSE layoutData.id,
               !.type = "layout"],
            rnd)

\* The comparator with its operands swapped: a.createdAt - b.createdAt.
OldestFirst(a, b) ==
    DateParse(a.createdAt).ms < DateParse(b.createdAt).ms

\* The comparator of images.getRecent: new Date(b.createdAt) - new Date(a.createdAt),
\* NaN when either date is invalid. Negative: a goes first.
RecentFirst(a, b) ==
    DateParse(a.createdAt).ms > DateParse(b.createdAt).ms

RECURSIVE InsertSorted(_, _)
\* x placed before the first element it must precede, after all others (stable).
InsertSorted(x, q) ==
    IF q = <<>> THEN <<x>>
    ELSE IF RecentFirst(x, Head(q)) THEN <<x>> \o q
    ELSE <<Head(q)>> \o InsertSorted(x, Tail(q))

RECURSIVE StableSort(_)
StableSort(q) ==
    IF q = <<>> THEN <<>>
    ELSE InsertSorted(q[Len(q)], StableSort(SubSeq(q, 1, Len(q) - 1)))

Reorderings(q) ==
    {[i \in 1..Len(q) |-> q[p[i]]] :
        p \in {f \in [1..Len(q) -> 1..Len(q)] :
                 \A i, j \in 1..Len(q) : f[i] = f[j] => i = j}}

\* Array.prototype.sort with that comparator: the stable order when every date
\* is valid; with an Invalid Date the comparator is inconsistent and the order
\* is implementation-defined.
SortOutcomes(q) ==
    IF \A i \in 1..Len(q) : DateParse(q[i].createdAt).ok
    THEN {StableSort(q)}
    ELSE Reorderings(q)

\* images.getRecent(limit): the arrays it may resolve to.
imagesGetRecent(W, limit) ==
    LET r == getAllItems(W, STORES.IMAGES, "createdAt", limit) IN
    [ok |-> r.ok, values |-> IF r.ok THEN SortOutcomes(r.value) ELSE {<<>>},
     w |-> r.w]

----------------------------------------------------------------------------
(* Storage Facade: dataStorage.js *)

\* An initializeStorage that runs its checks again on every call.
initializeStorageAgain(W, L) ==
    LET o == initialize(W) IN
    IF ~isLocalStorageAvailable(L) /\ ~o.ok
    THEN [ok |-> FALSE, w |-> o.w]
    ELSE [ok |-> TRUE, w |-> [o.w EXCEPT !.init = TRUE]]

\* initializeStorage(): at most once; fails when neither store is usable.
initializeStorage(W, L) ==
    IF W.init THEN [ok |-> TRUE, w |-> W]
    ELSE LET o == initialize(W) IN
         IF ~isLocalStorageAvailable(L) /\ ~o.ok
         THEN [ok |-> FALSE, w |-> o.w]
         ELSE [ok |-> TRUE, w |-> [o.w EXCEPT !.init = TRUE]]

\* saveGeneratedImage(imageData): the id, or null (<<>>) when the save failed.
saveGeneratedImage(W, L, imageData, rnd) ==
    LET r == imagesSave(initializeStorage(W, L).w, imageData, rnd) IN
    [value |-> IF r.ok THEN r.value ELSE <<>>, w |-> r.w]

\* A getRecentImages that takes the records it returns out of the collection.
getRecentImagesTaking(W, L, limit) ==
    LET r == imagesGetRecent(initializeStorage(W, L).w, limit) IN
    [values |-> r.values, w |-> [r.w EXCEPT !.data[STORES.IMAGES] = <<>>]]

\* getRecentImages(limit): the arrays it may resolve to; [] when the read failed.
getRecentImages(W, L, limit) ==
    LET r == imagesGetRecent(initializeStorage(W, L).w, limit) IN
    [values |-> r.values, w |-> r.w]

\* deleteGeneratedImage(imageId)
deleteGeneratedImage(W, L, imageId) ==
    LET r == deleteItem(initializeStorage(W, L).w, STORES.IMAGES, imageId) IN
    [value |-> r.ok /\ r.value, w |-> r.w]

\* saveLayout(layoutData)
saveLayout(W, L, layoutData, rnd) ==
    LET r == layoutsSave(initializeStorage(W, L).w, layoutData, rnd) IN
    [value |-> IF r.ok THEN r.value ELSE <<>>, w |-> r.w]

\* getDatabaseInfo(): name, version and a count per object store; the error
\* object when the database cannot be opened or a store cannot be read.
getDatabaseInfo(W) ==
    LET o == initDatabase(W) IN
    IF ~o.ok \/ \E n \in o.w.stores : ~RequestOk(o.w, n)
    THEN [value |-> [available |-> FALSE], w |-> o.w]
    ELSE LET count == [n \in o.w.stores |-> Cardinality(DOMAIN o.w.data[n])] IN
         [value |-> [name |-> "VisualAIContentStudio", version |-> DB_VERSION,
                     stores |-> count,
                     totalItems |-> SumOver(count, o.w.stores)],
          w |-> o.w]

\* exportAllData(): every category through its get.
exportAllData(L) ==
    [brandKit |-> categoryGet(L, STORAGE_KEYS.BRAND_KIT),
     userInfo |-> categoryGet(L, STORAGE_KEYS.USER_INFO),
     campaignVariable |-> categoryGet(L, STORAGE_KEYS.CAMPAIGN_VARIABLE),
     appPreferences |-> categoryGet(L, STORAGE_KEYS.APP_PREFERENCES),
     recentPrompts |-> categoryGet(L, STORAGE_KEYS.RECENT_PROMPTS),
     exportedAt |-> toISOString(now)]

ExportLimit == 100

\* exportAllUserData(): the snapshots it may resolve to (one per order the
\* sort of the recent images may produce).
exportAllUserData(W, L) ==
    LET r == getRecentImages(W, L, ExportLimit)
        info == getDatabaseInfo(r.w)
        local == exportAllData(L)
    IN [values |->
          {[brandKit |-> local.brandKit, userInfo |-> local.userInfo,
            campaignVariable |-> local.campaignVariable,
            appPreferences |-> local.appPreferences,
            recentPrompts |-> local.recentPrompts,
            hasImages |-> TRUE, images |-> imgs,
            metadata |-> [exportedAt |-> toISOString(now), version |-> "1.0.0",
                          storageMode |-> "local-only"],
            databaseInfo |-> info.value] : imgs \in r.values},
        w |-> info.w]

\* The same line without its `if`: the set is made whatever data.x is.
ImportFieldAlways(L, key, value) == setStorageItem(L, key, value).items

\* One `if (data.x) x.set(data.x)` of importAllData; the set's result is dropped.
ImportField(L, key, value) ==
    IF Truthy(value) THEN setStorageItem(L, key, value).items ELSE L

\* importAllData with the user info line left out.
importAllDataNoUserInfo(L, data) ==
    LET L1 == ImportField(L, STORAGE_KEYS.BRAND_KIT, data.brandKit)
        L3 == ImportField(L1, STORAGE_KEYS.CAMPAIGN_VARIABLE, data.campaignVariable)
        L4 == ImportField(L3, STORAGE_KEYS.APP_PREFERENCES, data.appPreferences)
    IN [ok |-> TRUE,
        items |-> ImportField(L4, STORAGE_KEYS.RECENT_PROMPTS, data.recentPrompts)]

\* importAllData(data): the items it leaves; it returns true.
importAllData(L, data) ==
    LET L1 == ImportField(L, STORAGE_KEYS.BRAND_KIT, data.brandKit)
        L2 == ImportField(L1, STORAGE_KEYS.USER_INFO, data.userInfo)
        L3 == ImportField(L2, STORAGE_KEYS.CAMPAIGN_VARIABLE, data.campaignVariable)
        L4 == ImportField(L3, STORAGE_KEYS.APP_PREFERENCES, data.appPreferences)
    IN [ok |-> TRUE,
        items |-> ImportField(L4, STORAGE_KEYS.RECENT_PROMPTS, data.recentPrompts)]

RECURSIVE SaveEach(_, _, _, _)
\* for (const imageData of data.images) await saveGeneratedImage(imageData)
SaveEach(W, L, list, rnd) ==
    IF list = <<>> THEN W
    ELSE SaveEach(saveGeneratedImage(W, L, Head(list), rnd).w, L, Tail(list), rnd)

\* importUserData(data): the result, the items and the document side it leaves.
importUserData(W, L, data, rnd) ==
    LET i == initializeStorage(W, L)
        local == importAllData(L, data)
    IN [value |-> local.ok, items |-> local.items,
        w |-> IF data.hasImages THEN SaveEach(i.w, local.items, data.images, rnd)
              ELSE i.w]

\* clearAllUserData(): localStorage first, then the three collections in turn;
\* the first rejected clear ends the call with false.
clearAllUserData(W, L) ==
    LET i == initializeStorage(W, L)
        local == clearAllStorageData(L)
        c1 == clearStore(i.w, STORES.IMAGES)
        c2 == clearStore(c1.w, STORES.LAYOUTS)
        c3 == clearStore(c2.w, STORES.PROJECTS)
    IN IF ~c1.ok THEN [value |-> FALSE, items |-> local.items, w |-> c1.w]
       ELSE IF ~c2.ok THEN [value |-> FALSE, items |-> local.items, w |-> c2.w]
       ELSE IF ~c3.ok THEN [value |-> FALSE, items |-> local.items, w |-> c3.w]
       ELSE [value |-> local.ok, items |-> local.items, w |-> c3.w]

DefaultDaysOld == 30

\* cleanupOldData: cutoffDate.setDate(getDate() - daysOld), as an ISO string.
\* An instant before year 0 is written with a leading "-".
CutoffISO(daysOld) ==
    IF now >= daysOld THEN toISOString(now - daysOld)
    ELSE <<45>> \o toISOString(daysOld - now)

\* The test of the cleanup loop: image.createdAt < cutoffISO.
IsOld(image, cutoffISO) == StrLess(image.createdAt, cutoffISO)

----------------------------------------------------------------------------
(* Inputs *)

KitFull ==
    Obj([colors |-> Arr(<<Str("#111")>>), typography |-> Str("Bold"),
         styleKeywords |-> Arr(<<Str("modern")>>)])
KitPartial == Obj([typography |-> Str("Bold")])
UserFull ==
    Obj([companyName |-> Str("Acme"), primaryPlatform |-> Str("instagram"),
         socialHandle |-> Str("@acme"), missionBio |-> Str("bio")])
PrefsDark ==
    Obj([theme |-> Str("dark"), autoSave |-> Bool(FALSE),
         notifications |-> Bool(TRUE), defaultPlatforms |-> Arr(<<>>)])
PrefsUndefTheme ==
    Obj([theme |-> Undef, autoSave |-> Bool(TRUE),
         notifications |-> Bool(TRUE), defaultPlatforms |-> Arr(<<>>)])

\* Values of the type each save function documents for its argument.
TypedValues(key) ==
    CASE key = STORAGE_KEYS.BRAND_KIT -> {KitFull, KitPartial}
      [] key = STORAGE_KEYS.USER_INFO -> {UserFull}
      [] key = STORAGE_KEYS.CAMPAIGN_VARIABLE -> {Str(""), Str("spring")}
      [] key = STORAGE_KEYS.APP_PREFERENCES -> {PrefsDark}
      [] OTHER -> {Arr(<<>>), Arr(<<Str("p1")>>)}

\* Any value a caller of setStorageItem may pass.
AnyValues(key) ==
    TypedValues(key) \cup
    (CASE key = STORAGE_KEYS.BRAND_KIT -> {Undef}
       [] key = STORAGE_KEYS.USER_INFO -> {Circular}
       [] key = STORAGE_KEYS.CAMPAIGN_VARIABLE -> {Null}
       [] key = STORAGE_KEYS.APP_PREFERENCES -> {PrefsUndefTheme}
       [] OTHER -> {Arr(<<NaN>>)})

\* Math.random().toString(36).substr(2, 9): two of its outcomes, "a" and "b".
RandSuffixes == {<<97>>, <<98>>}

\* createdAt strings a caller may pass: none, a timestamp, and two strings that
\* are no timestamp, "#" (below every digit) and "x" (above every digit).
BadLow == <<35>>
BadHigh == <<120>>
CreatedAtInputs == {<<>>, toISOString(0), BadLow, BadHigh}

CallerIds == {<<105>>}                      \* "i"
ListIds == {<<105>>, <<106>>, <<107>>}      \* "i", "j", "k"
MaintIds == {<<105>>, <<106>>}

Prompts == {"sunset", "beach"}

----------------------------------------------------------------------------
(* Actions *)

Idle == [pc |-> "idle"]

\* A write or an environment change while a maintenance call is in flight.
Disturbed == IF maint.pc = "idle" THEN maint ELSE [maint EXCEPT !.quiet = FALSE]

SetWorld(w) ==
    /\ dbInstance' = w.inst
    /\ dbVersion' = w.ver
    /\ dbStores' = w.stores
    /\ dbIndexes' = w.indexes
    /\ db' = w.data
    /\ isInitialized' = w.init

\* A first visit, once dataStorage.js has loaded and its initializeStorage()
\* call has opened (and so created) the database.
Init ==
    /\ now = 0
    /\ lsItems = <<>>
    /\ lsEnabled = TRUE
    /\ lsOther = 0
    /\ idbPresent = TRUE
    /\ faulty = {}
    /\ dbInstance = "open"
    /\ dbVersion = DB_VERSION
    /\ dbStores = StoreNames
    /\ dbIndexes = [n \in StoreNames |-> IndexNames(n)]
    /\ db = [n \in StoreNames |-> <<>>]
    /\ isInitialized = TRUE
    /\ maint = Idle
    /\ issued = <<>>
    /\ ret = [op |-> "none"]
    /\ conns = <<"open">>
    /\ cached = 1
    /\ opening = <<>>
    /\ calls = <<>>
    /\ txQueue = <<>>

Tick ==
    /\ now < MaxNow
    /\ now' = now + 1
    /\ UNCHANGED <<rtVars, kvVars, docVars, isInitialized, maint, issued, ret>>

\* The browser's storage is switched off or on (private mode, site settings).
EnvLocalStorage ==
    /\ lsEnabled' = ~lsEnabled
    /\ ret' = [op |-> "env"]
    /\ maint' = Disturbed
    /\ UNCHANGED <<rtVars, now, lsItems, lsOther, docVars, isInitialized, issued>>

\* Other data of the origin grows (as far as the quota lets it) or goes away.
EnvQuota ==
    /\ lsOther' = IF lsOther = 0 THEN Quota - TightRoom ELSE 0
    /\ LsUsed(lsItems) + lsOther' <= Quota
    /\ ret' = [op |-> "env"]
    /\ maint' = Disturbed
    /\ UNCHANGED <<rtVars, now, lsItems, lsEnabled, docVars, isInitialized, issued>>

EnvIndexedDB ==
    /\ idbPresent' = ~idbPresent
    /\ ret' = [op |-> "env"]
    /\ maint' = Disturbed
    /\ UNCHANGED <<rtVars, now, kvVars, faulty, dbInstance, dbVersion, dbStores, dbIndexes, db,
                   isInitialized, issued>>

\* Requests on one object store start or stop failing.
EnvFault ==
    /\ \E n \in StoreNames :
         faulty' = IF n \in faulty THEN faulty \ {n} ELSE faulty \cup {n}
    /\ ret' = [op |-> "env"]
    /\ maint' = Disturbed
    /\ UNCHANGED <<rtVars, now, kvVars, idbPresent, dbInstance, dbVersion, dbStores, dbIndexes, db,
                   isInitialized, issued>>

\* Page reload: module state is lost, stored data is kept, and dataStorage.js
\* calls initializeStorage() as it loads.
Reload ==
    /\ SetWorld(initializeStorage(
                  [World EXCEPT !.inst = "null", !.init = FALSE], lsItems).w)
    /\ maint' = Idle
    /\ ret' = IF ret.op = "set" THEN [ret EXCEPT !.reloaded = TRUE] ELSE [op |-> "reload"]
    /\ UNCHANGED <<rtVars, now, kvVars, idbPresent, faulty, issued>>

\* saveBrandKit, saveUserInfo, ... : category.set, that is setStorageItem.
SaveSetting(key, value) ==
    LET r == setStorageItem(lsItems, key, value) IN
    /\ lsItems' = r.items
    /\ ret' = [op |-> "set", key |-> key, value |-> value, ok |-> r.ok,
               avail |-> isLocalStorageAvailable(lsItems),
               fits |-> ~LsSetThrows(lsItems, key, Stringify(value)),
               reloaded |-> FALSE]
    /\ maint' = Disturbed
    /\ UNCHANGED <<rtVars, now, lsEnabled, lsOther, docVars, isInitialized, issued>>

\* loadBrandKit, loadUserInfo, ... : category.get.
LoadSetting(key) ==
    /\ ret' = [op |-> "get", key |-> key, value |-> categoryGet(lsItems, key),
               stored |-> key \in DOMAIN lsItems]
    /\ UNCHANGED <<rtVars, now, kvVars, docVars, isInitialized, maint, issued>>

\* category.clear
ClearSetting(key) ==
    LET r == removeStorageItem(lsItems, key) IN
    /\ lsItems' = r.items
    /\ ret' = [op |-> "remove", key |-> key, ok |-> r.ok]
    /\ maint' = Disturbed
    /\ UNCHANGED <<rtVars, now, lsEnabled, lsOther, docVars, isInitialized, issued>>

\* A layout record as a caller passes it.
LayoutData(id, imageId) ==
    [id |-> id, type |-> "", imageId |-> imageId, platform |-> "instagram",
     createdAt |-> <<>>, updatedAt |-> <<>>]

Images == db[STORES.IMAGES]

\* saveGeneratedImage(imageData)
SaveImage(imageData, rnd) ==
    LET r == saveGeneratedImage(World, lsItems, imageData, rnd)
        idless == imageData.id = <<>>
    IN /\ idless => Len(issued) < MaxIssued
       /\ Cardinality(DOMAIN r.w.data[STORES.IMAGES]) <= MaxImages
       /\ SetWorld(r.w)
       /\ issued' = IF idless /\ r.value # <<>>
                    THEN Append(issued, [id |-> r.value, at |-> now, rnd |-> rnd])
                    ELSE issued
       /\ ret' = [op |-> "save", data |-> imageData, value |-> r.value]
       /\ maint' = Disturbed
       /\ UNCHANGED <<rtVars, now, kvVars, idbPresent, faulty>>

\* deleteGeneratedImage(imageId)
DeleteImage(imageId) ==
    LET r == deleteGeneratedImage(World, lsItems, imageId) IN
    /\ SetWorld(r.w)
    /\ ret' = [op |-> "delete", id |-> imageId, value |-> r.value,
               existed |-> imageId \in DOMAIN Images]
    /\ maint' = Disturbed
    /\ UNCHANGED <<rtVars, now, kvVars, idbPresent, faulty, issued>>

\* getRecentImages(limit)   (the facade's listRecent)
ListRecent(limit) ==
    LET w0 == initializeStorage(World, lsItems).w
        r == getRecentImages(World, lsItems, limit)
    IN /\ SetWorld(r.w)
       /\ \E out \in r.values :
            ret' = [op |-> "recent", limit |-> limit, value |-> out,
                    failed |-> ~imagesGetRecent(w0, limit).ok]
       /\ UNCHANGED <<rtVars, now, kvVars, idbPresent, faulty, maint, issued>>

\* saveLayout(layoutData)
SaveLayout(layoutData, rnd) ==
    LET r == saveLayout(World, lsItems, layoutData, rnd) IN
    /\ Cardinality(DOMAIN r.w.data[STORES.LAYOUTS]) <= MaxLayouts
    /\ SetWorld(r.w)
    /\ ret' = [op |-> "saveLayout", data |-> layoutData, value |-> r.value]
    /\ UNCHANGED <<rtVars, now, kvVars, idbPresent, faulty, maint, issued>>

\* performMaintenance({daysOld}), up to the array cleanupOldData scans.
MaintStart(daysOld) ==
    LET r == getAllItems(initializeStorage(World, lsItems).w, STORES.IMAGES, "", 0) IN
    /\ maint.pc = "idle"
    /\ SetWorld(r.w)
    /\ maint' = [pc |-> IF r.ok THEN "loop" ELSE "status",
                 queue |-> r.value, cutoffISO |-> CutoffISO(daysOld),
                 deletedCount |-> 0,
                 daysOld |-> daysOld, at |-> now, before |-> Images,
                 quiet |-> TRUE]
    /\ UNCHANGED <<rtVars, now, kvVars, idbPresent, faulty, issued, ret>>

\* One turn of `for (const image of oldImages)`: the test, and the awaited
\* images.delete when it passes. A rejected delete ends the loop with 0.
MaintStep ==
    /\ maint.pc = "loop"
    /\ maint.queue # <<>>
    /\ LET image == Head(maint.queue) IN
       IF IsOld(image, maint.cutoffISO)
       THEN LET d == deleteItem(World, STORES.IMAGES, image.id) IN
            /\ SetWorld(d.w)
            /\ maint' = IF d.ok
                        THEN [maint EXCEPT !.queue = Tail(@),
                                           !.deletedCount = @ + 1]
                        ELSE [maint EXCEPT !.pc = "status", !.deletedCount = 0]
       ELSE /\ maint' = [maint EXCEPT !.queue = Tail(@)]
            /\ UNCHANGED <<dbInstance, dbVersion, dbStores, dbIndexes, db, isInitialized>>
    /\ UNCHANGED <<rtVars, now, kvVars, idbPresent, faulty, issued, ret>>

\* The end of performMaintenance: getStorageStatus(), then the result.
MaintFinish ==
    LET info == getDatabaseInfo(World) IN
    /\ \/ maint.pc = "status"
       \/ maint.pc = "loop" /\ maint.queue = <<>>
    /\ SetWorld(info.w)
    /\ ret' = [op |-> "maintenance", success |-> TRUE,
               deletedItems |-> maint.deletedCount,
               storageStatus |-> [initialized |-> isInitialized,
                                  indexedDB |-> info.value,
                                  mode |-> "local-only"],
               daysOld |-> maint.daysOld, at |-> maint.at,
               before |-> maint.before, quiet |-> maint.quiet]
    /\ maint' = Idle
    /\ UNCHANGED <<rtVars, now, kvVars, idbPresent, faulty, issued>>

\* The five categories as their gets return them.
Settings(L) ==
    [k \in Keys |-> categoryGet(L, k)]

\* exportAllUserData()
ExportAll ==
    LET r == exportAllUserData(World, lsItems) IN
    /\ SetWorld(r.w)
    /\ \E s \in r.values : ret' = [op |-> "export", value |-> s]
    /\ UNCHANGED <<rtVars, now, kvVars, idbPresent, faulty, maint, issued>>

\* clearAllUserData(). The result keeps what the call before it exported and
\* what the settings were, for the import that may follow.
ClearAll ==
    LET r == clearAllUserData(World, lsItems) IN
    /\ SetWorld(r.w)
    /\ lsItems' = r.items
    /\ ret' = [op |-> "clear", value |-> r.value,
               avail |-> isLocalStorageAvailable(lsItems),
               exported |-> IF ret.op = "export" THEN <<ret.value>> ELSE <<>>,
               settings |-> Settings(lsItems)]
    /\ maint' = Disturbed
    /\ UNCHANGED <<rtVars, now, lsEnabled, lsOther, idbPresent, faulty, issued>>

\* importUserData(data)
ImportAll(data) ==
    LET r == importUserData(World, lsItems, data, <<>>) IN
    /\ \A i \in 1..Len(data.images) : data.images[i].id # <<>>
    /\ Cardinality(DOMAIN r.w.data[STORES.IMAGES]) <= MaxImages
    /\ SetWorld(r.w)
    /\ lsItems' = r.items
    /\ ret' = [op |-> "import", value |-> r.value, data |-> data,
               roundTrip |-> ret.op = "clear" /\ ret.exported = <<data>>,
               settings |-> IF ret.op = "clear" THEN ret.settings
                            ELSE Settings(lsItems)]
    /\ maint' = Disturbed
    /\ UNCHANGED <<rtVars, now, lsEnabled, lsOther, idbPresent, faulty, issued>>

\* The snapshots at hand: the one just exported (before or after a clear), and
\* what an older export of it would hold, the settings other than the app
\* preferences and no images.
Exported ==
    IF ret.op = "export" THEN {ret.value}
    ELSE IF ret.op = "clear" /\ ret.exported # <<>> THEN {ret.exported[1]}
    ELSE {}

ImportInputs ==
    Exported \cup
    {[s EXCEPT !.appPreferences = Undef, !.hasImages = FALSE, !.images = <<>>] :
        s \in Exported}

SaveTyped == \E key \in Keys : \E v \in TypedValues(key) : SaveSetting(key, v)
SaveAny == \E key \in Keys : \E v \in AnyValues(key) : SaveSetting(key, v)
Load == \E key \in Keys : LoadSetting(key)
ClearOne == \E key \in Keys : ClearSetting(key)

NextKV == SaveAny \/ Load \/ ClearOne \/ EnvLocalStorage \/ EnvQuota \/ Reload

SpecKV == Init /\ [][NextKV]_vars

\* Saves of records that carry no id.
SaveWithoutId(createdAts, prompts) ==
    \E createdAt \in createdAts, prompt \in prompts, rnd \in RandSuffixes :
        SaveImage(ImageData(<<>>, createdAt, prompt), rnd)

\* Saves of records that carry an id.
SaveWithId(ids, createdAts, prompts) ==
    \E id \in ids, createdAt \in createdAts, prompt \in prompts :
        SaveImage(ImageData(id, createdAt, prompt), <<>>)

\* A record read back, changed and saved again.
UpdateImage ==
    \E id \in DOMAIN Images, prompt \in Prompts :
        SaveImage([Images[id] EXCEPT !.prompt = prompt], <<>>)

DeleteAny == \E id \in DOMAIN Images : DeleteImage(id)

ListRecentAny == \E limit \in 0..MaxLimit : ListRecent(limit)

MaintStartAny ==
    \E daysOld \in (1..MaxDaysOld) \cup {DefaultDaysOld} : MaintStart(daysOld)

SaveLayoutAny == \E imageId \in CallerIds : SaveLayout(LayoutData(<<108>>, imageId), <<>>)

ImportAny == \E data \in ImportInputs : ImportAll(data)

\* Ids: saves without an id, at the same and at different instants.
NextIds ==
    \/ Tick
    \/ SaveWithoutId({<<>>}, {"sunset"})
    \/ DeleteAny
    \/ Reload

SpecIds == Init /\ [][NextIds]_vars

\* Puts and updates of records with an id.
NextPut ==
    \/ Tick
    \/ SaveWithId(MaintIds, {<<>>, toISOString(0)}, Prompts)
    \/ UpdateImage
    \/ DeleteAny

SpecPut == Init /\ [][NextPut]_vars

\* Listing the recent images.
NextRecent ==
    \/ Tick
    \/ SaveWithId(ListIds, {<<>>, BadLow}, {"sunset"})
    \/ ListRecentAny

SpecRecent == Init /\ [][NextRecent]_vars

\* Maintenance, run to its end before the next save.
NextMaint ==
    \/ Tick
    \/ maint.pc = "idle" /\ SaveWithId(MaintIds, CreatedAtInputs \ {toISOString(0)}, {"sunset"})
    \/ MaintStartAny
    \/ MaintStep
    \/ MaintFinish

SpecMaint == Init /\ [][NextMaint]_vars

\* Full reset, with stores that fail.
NextReset ==
    \/ SaveSetting(STORAGE_KEYS.CAMPAIGN_VARIABLE, Str("spring"))
    \/ SaveWithId(CallerIds, {<<>>}, {"sunset"})
    \/ SaveLayoutAny
    \/ EnvLocalStorage
    \/ EnvIndexedDB
    \/ EnvFault
    \/ ClearAll

SpecReset == Init /\ [][NextReset]_vars

\* Export, full reset and import of typed settings and images.
NextBackup ==
    \/ SaveTyped
    \/ SaveWithId(CallerIds, {<<>>}, {"sunset"})
    \/ EnvLocalStorage
    \/ EnvQuota
    \/ ExportAll
    \/ ClearAll
    \/ ImportAny

SpecBackup == Init /\ [][NextBackup]_vars

----------------------------------------------------------------------------
(* Key-Value Store calls with their outcome: a returned value or a throw *)

Returns(v) == [returns |-> v]
Throws(e) == [throws |-> e]
Threw(o) == "throws" \in DOMAIN o

\* The same function without its try: the exception leaves the function.
Uncaught(o, fallback) == o

\* try { body } catch (error) { logError(...); return fallback; }
\* logError stores the report inside a try of its own and does not throw.
Catch(o, fallback) == IF Threw(o) THEN Returns(fallback) ELSE o

\* localStorage.setItem(key, text)
LsSetItem(L, key, text) ==
    IF LsSetThrows(L, key, text)
    THEN Throws(IF lsEnabled THEN "QuotaExceededError" ELSE "SecurityError")
    ELSE Returns([k \in DOMAIN L \cup {key} |-> IF k = key THEN text ELSE L[k]])

\* isLocalStorageAvailable()
isLocalStorageAvailableCall(L) ==
    LET w == LsSetItem(L, "__localStorage_test__", [raw |-> "__localStorage_test__"])
    IN Catch(IF Threw(w) THEN w ELSE Returns(TRUE), FALSE)

\* The part of a function after `if (!isLocalStorageAvailable()) return early`.
WhenAvailable(L, early, rest) ==
    LET p == isLocalStorageAvailableCall(L)
    IN IF Threw(p) THEN p ELSE IF ~p.returns THEN Returns(early) ELSE rest

\* getStorageItem(key, defaultValue)
getStorageItemCall(L, key, defaultValue) ==
    Catch(WhenAvailable(L, defaultValue,
              IF key \notin DOMAIN L THEN Returns(defaultValue)
              ELSE IF Parse(L[key]).ok THEN Returns(Parse(L[key]).value)
              ELSE Throws("SyntaxError")),
          defaultValue)

\* setStorageItem(key, value): the outcome and the items left.
setStorageItemCall(L, key, value) ==
    LET text == Stringify(value)
        w == IF "throws" \in DOMAIN text THEN Throws("TypeError")
             ELSE LsSetItem(L, key, text)
        o == Catch(WhenAvailable(L, FALSE, IF Threw(w) THEN w ELSE Returns(TRUE)),
                   FALSE)
    IN [outcome |-> o,
        items |-> IF ~Threw(o) /\ o.returns = TRUE THEN w.returns ELSE L]

\* removeStorageItem(key)
removeStorageItemCall(L, key) ==
    LET o == Catch(WhenAvailable(L, FALSE, Returns(TRUE)), FALSE)
    IN [outcome |-> o,
        items |-> IF ~Threw(o) /\ o.returns = TRUE
                  THEN [k \in DOMAIN L \ {key} |-> L[k]] ELSE L]

\* clearAllStorageData()
clearAllStorageDataCall(L) ==
    LET o == Catch(WhenAvailable(L, FALSE, Returns(TRUE)), FALSE)
    IN [outcome |-> o,
        items |-> IF ~Threw(o) /\ o.returns = TRUE
                  THEN [k \in DOMAIN L \ Keys |-> L[k]] ELSE L]

\* Defaults a caller of getStorageItem may pass: the category's, null, and none
\* (the parameter's own default, null).
GetDefaults(key) == {DefaultOf(key), Null, Str("fallback")}

\* getStorageItem(key, defaultValue)
GetItemCall(key, defaultValue) ==
    /\ ret' = [op |-> "getItem", key |-> key, default |-> defaultValue,
               outcome |-> getStorageItemCall(lsItems, key, defaultValue),
               avail |-> isLocalStorageAvailable(lsItems),
               stored |-> key \in DOMAIN lsItems,
               parses |-> key \in DOMAIN lsItems /\ Parse(lsItems[key]).ok]
    /\ UNCHANGED <<rtVars, now, kvVars, docVars, isInitialized, maint, issued>>

\* setStorageItem(key, value)
SetItemCall(key, value) ==
    LET r == setStorageItemCall(lsItems, key, value) IN
    /\ lsItems' = r.items
    /\ ret' = [op |-> "setItem", key |-> key, value |-> value,
               outcome |-> r.outcome,
               avail |-> isLocalStorageAvailable(lsItems),
               written |-> /\ "throws" \notin DOMAIN Stringify(value)
                           /\ ~LsSetThrows(lsItems, key, Stringify(value))]
    /\ maint' = Disturbed
    /\ UNCHANGED <<rtVars, now, lsEnabled, lsOther, docVars, isInitialized, issued>>

\* removeStorageItem(key)
RemoveItemCall(key) ==
    LET r == removeStorageItemCall(lsItems, key) IN
    /\ lsItems' = r.items
    /\ ret' = [op |-> "removeItem", key |-> key, outcome |-> r.outcome,
               avail |-> isLocalStorageAvailable(lsItems)]
    /\ maint' = Disturbed
    /\ UNCHANGED <<rtVars, now, lsEnabled, lsOther, docVars, isInitialized, issued>>

\* clearAllStorageData()
ClearItemsCall ==
    LET r == clearAllStorageDataCall(lsItems) IN
    /\ lsItems' = r.items
    /\ ret' = [op |-> "clearItems", outcome |-> r.outcome,
               avail |-> isLocalStorageAvailable(lsItems)]
    /\ maint' = Disturbed
    /\ UNCHANGED <<rtVars, now, lsEnabled, lsOther, docVars, isInitialized, issued>>

GetAny == \E key \in Keys : \E d \in GetDefaults(key) : GetItemCall(key, d)
SetAny == \E key \in Keys : \E v \in AnyValues(key) : SetItemCall(key, v)
RemoveAny == \E key \in Keys : RemoveItemCall(key)

\* The Key-Value Store's functions called directly, in a browser whose storage
\* is switched off and on and fills up.
NextKVCalls ==
    \/ GetAny
    \/ SetAny
    \/ RemoveAny
    \/ ClearItemsCall
    \/ EnvLocalStorage
    \/ EnvQuota

SpecKVCalls == Init /\ [][NextKVCalls]_vars

----------------------------------------------------------------------------
(* Imports of snapshots taken in other states, of partial and of edited ones *)

\* data.brandKit, data.userInfo, ... : the field importAllData reads for a key.
SnapshotField(data, key) ==
    CASE key = STORAGE_KEYS.BRAND_KIT -> data.brandKit
      [] key = STORAGE_KEYS.USER_INFO -> data.userInfo
      [] key = STORAGE_KEYS.CAMPAIGN_VARIABLE -> data.campaignVariable
      [] key = STORAGE_KEYS.APP_PREFERENCES -> data.appPreferences
      [] OTHER -> data.recentPrompts

\* The categories the saves of SpecImport write; the others keep their default.
ImportKeys ==
    {STORAGE_KEYS.BRAND_KIT, STORAGE_KEYS.CAMPAIGN_VARIABLE,
     STORAGE_KEYS.RECENT_PROMPTS}

\* The values those saves write.
ImportValues(key) ==
    CASE key = STORAGE_KEYS.BRAND_KIT -> {KitFull}
      [] key = STORAGE_KEYS.CAMPAIGN_VARIABLE -> {Str(""), Str("spring")}
      [] OTHER -> {Arr(<<Str("p1")>>)}

\* What a category's get returns in one of the states those saves reach.
LoadedValues(key) ==
    IF key \in ImportKeys THEN ImportValues(key) \cup {DefaultOf(key)}
    ELSE {DefaultOf(key)}

\* The object exportAllUserData() builds from the settings s and the images.
SnapshotOf(s, imgs) ==
    [brandKit |-> s[STORAGE_KEYS.BRAND_KIT],
     userInfo |-> s[STORAGE_KEYS.USER_INFO],
     campaignVariable |-> s[STORAGE_KEYS.CAMPAIGN_VARIABLE],
     appPreferences |-> s[STORAGE_KEYS.APP_PREFERENCES],
     recentPrompts |-> s[STORAGE_KEYS.RECENT_PROMPTS],
     hasImages |-> TRUE, images |-> imgs,
     metadata |-> [exportedAt |-> toISOString(0), version |-> "1.0.0",
                   storageMode |-> "local-only"],
     databaseInfo |-> [available |-> FALSE]]

\* An image record as a snapshot holds it.
SnapshotImage ==
    [id |-> <<106>>, type |-> "image", createdAt |-> toISOString(0),
     updatedAt |-> toISOString(0), prompt |-> "beach"]

\* exportAllUserData() taken in every state S of the settings.
FullSnapshots ==
    {SnapshotOf([k \in Keys |->
                   CASE k = STORAGE_KEYS.BRAND_KIT -> b
                     [] k = STORAGE_KEYS.CAMPAIGN_VARIABLE -> c
                     [] k = STORAGE_KEYS.RECENT_PROMPTS -> r
                     [] OTHER -> DefaultOf(k)], <<>>) :
        b \in LoadedValues(STORAGE_KEYS.BRAND_KIT),
        c \in LoadedValues(STORAGE_KEYS.CAMPAIGN_VARIABLE),
        r \in LoadedValues(STORAGE_KEYS.RECENT_PROMPTS)}

\* Snapshots of older export versions: fields absent (data.x is undefined).
PartialSnapshots ==
    LET s == SnapshotOf([k \in Keys |-> IF k = STORAGE_KEYS.CAMPAIGN_VARIABLE
                                         THEN Str("spring") ELSE DefaultOf(k)],
                        <<SnapshotImage>>)
    IN {s,
        [s EXCEPT !.brandKit = Undef, !.userInfo = Undef],
        [s EXCEPT !.campaignVariable = Undef, !.recentPrompts = Undef,
                  !.appPreferences = Undef],
        [s EXCEPT !.brandKit = Undef, !.hasImages = FALSE, !.images = <<>>]}

\* recentPrompts.add keeps prompt plus prompts.slice(0, 9).
MaxRecentPrompts == 10

\* A snapshot file edited by hand: the recent prompts alone, one prompt more
\* than recentPrompts.add ever keeps.
LongSnapshot ==
    SnapshotOf([k \in Keys |-> IF k = STORAGE_KEYS.RECENT_PROMPTS
                               THEN Arr([i \in 1..(MaxRecentPrompts + 1) |-> Str("p1")])
                               ELSE Undef], <<>>)

ImportSnapshot ==
    \E data \in FullSnapshots \cup PartialSnapshots \cup {LongSnapshot} :
        ImportAll(data)

SaveImported ==
    \E key \in ImportKeys : \E v \in ImportValues(key) : SaveSetting(key, v)

NextImport ==
    \/ SaveImported
    \/ SaveWithId(CallerIds, {<<>>}, {"sunset"})
    \/ EnvLocalStorage
    \/ ExportAll
    \/ ImportSnapshot

SpecImport == Init /\ [][NextImport]_vars

\* Exports of stored settings, images and layouts, with the database open or
\* not yet opened and stores that fail.
NextExport ==
    \/ SaveImported
    \/ SaveWithId(CallerIds, {<<>>}, {"sunset"})
    \/ SaveLayoutAny
    \/ EnvLocalStorage
    \/ EnvIndexedDB
    \/ EnvFault
    \/ Reload
    \/ ExportAll

SpecExport == Init /\ [][NextExport]_vars

----------------------------------------------------------------------------
(* The recent-prompts list: recentPrompts.add *)

\* prompts.slice(0, 9) without its bound: the whole list.
KeptPromptsAll(prompts) == prompts

\* prompts.slice(0, 9)
KeptPrompts(prompts) == Slice(prompts, MaxRecentPrompts - 1)

\* recentPrompts.add(prompt): the outcome and the items left. The get and the
\* spread are outside any try: a stored null, number or object has no slice.
recentPromptsAdd(L, prompt) ==
    LET prompts == getStorageItem(L, STORAGE_KEYS.RECENT_PROMPTS, RecentPromptsDefault)
    IN IF ~IsArr(prompts) THEN [outcome |-> Throws("TypeError"), items |-> L]
       ELSE setStorageItemCall(L, STORAGE_KEYS.RECENT_PROMPTS,
                               Arr(<<prompt>> \o KeptPrompts(prompts.arr)))

\* The list stored in L, if one is.
PromptsIn(L) ==
    IF /\ STORAGE_KEYS.RECENT_PROMPTS \in DOMAIN L
       /\ Parse(L[STORAGE_KEYS.RECENT_PROMPTS]).ok
       /\ IsArr(Parse(L[STORAGE_KEYS.RECENT_PROMPTS]).value)
    THEN Parse(L[STORAGE_KEYS.RECENT_PROMPTS]).value.arr
    ELSE <<>>

PromptInputs == {Str("p1"), Str("p2")}

AddPrompt(prompt) ==
    LET r == recentPromptsAdd(lsItems, prompt) IN
    /\ lsItems' = r.items
    /\ ret' = [op |-> "addPrompt", prompt |-> prompt, outcome |-> r.outcome,
               before |-> PromptsIn(lsItems)]
    /\ maint' = Disturbed
    /\ UNCHANGED <<rtVars, now, lsEnabled, lsOther, docVars, isInitialized, issued>>

AddAnyPrompt == \E prompt \in PromptInputs : AddPrompt(prompt)

\* Prompts added one after another, in a browser whose storage is switched off
\* and on and fills up.
NextPrompts ==
    \/ AddAnyPrompt
    \/ EnvLocalStorage
    \/ EnvQuota

SpecPrompts == Init /\ [][NextPrompts]_vars

----------------------------------------------------------------------------
(* Search: images.search and searchImages. Prompts and search texts are
   sequences of UTF-16 code units here; <<>> is the empty string. *)

\* String.prototype.toLowerCase without its lower-casing.
toLowerCaseNot(s) == s

\* String.prototype.toLowerCase, on the letters A-Z.
toLowerCase(s) ==
    [i \in DOMAIN s |-> IF s[i] >= 65 /\ s[i] <= 90 THEN s[i] + 32 ELSE s[i]]

\* s.includes(t)
includes(s, t) ==
    \E i \in 0..(Len(s) - Len(t)) : SubSeq(s, i + 1, i + Len(t)) = t

\* The filter of images.search: img.prompt && img.prompt.toLowerCase()
\* .includes(searchText.toLowerCase())
Matches(img, searchText) ==
    /\ img.prompt # <<>>
    /\ includes(toLowerCase(img.prompt), toLowerCase(searchText))

\* images.search(searchText)
imagesSearch(W, searchText) ==
    LET r == getAllItems(W, STORES.IMAGES, "", 0)
        Test(img) == Matches(img, searchText)
    IN [ok |-> r.ok, value |-> IF r.ok THEN SelectSeq(r.value, Test) ELSE <<>>,
        w |-> r.w]

\* searchImages(searchText): [] when the read failed.
searchImages(W, L, searchText) ==
    LET r == imagesSearch(initializeStorage(W, L).w, searchText) IN
    [value |-> r.value, failed |-> ~r.ok, w |-> r.w]

\* "Sun", "un", "s" and "".
SearchPrompts == {<<83, 117, 110>>, <<117, 110>>, <<115>>, <<>>}

\* "sun", "UN", "x" and "".
SearchTexts == {<<115, 117, 110>>, <<85, 78>>, <<120>>, <<>>}

Search(searchText) ==
    LET r == searchImages(World, lsItems, searchText) IN
    /\ SetWorld(r.w)
    /\ ret' = [op |-> "search", text |-> searchText, value |-> r.value,
               failed |-> r.failed]
    /\ UNCHANGED <<rtVars, now, kvVars, idbPresent, faulty, maint, issued>>

SearchAny == \E searchText \in SearchTexts : Search(searchText)

NextSearch ==
    \/ SaveWithId(ListIds, {<<>>}, SearchPrompts)
    \/ DeleteAny
    \/ SearchAny

SpecSearch == Init /\ [][NextSearch]_vars

----------------------------------------------------------------------------
(* Puts of records with different fields, and reads by id *)

\* loadGeneratedImage(imageId): the record, or null (<<>>); null also when the
\* read failed.
loadGeneratedImage(W, L, imageId) ==
    LET r == getItem(initializeStorage(W, L).w, STORES.IMAGES, imageId) IN
    [value |-> IF r.ok THEN r.value ELSE <<>>, failed |-> ~r.ok, w |-> r.w]

\* The same record with a platform field.
WithPlatform(imageData) ==
    [k \in DOMAIN imageData \cup {"platform"} |->
        IF k = "platform" THEN "instagram" ELSE imageData[k]]

\* Records a caller passes: with and without a prompt, with and without a
\* platform field.
PutInputs ==
    LET plain == {ImageData(id, <<>>, prompt) :
                    id \in MaintIds, prompt \in Prompts \cup {""}}
    IN plain \cup {WithPlatform(r) : r \in plain}

\* saveGeneratedImage(imageData) of a record with an id; the result keeps the
\* record the id held before.
PutImage(imageData) ==
    LET r == saveGeneratedImage(World, lsItems, imageData, <<>>) IN
    /\ SetWorld(r.w)
    /\ ret' = [op |-> "put", data |-> imageData, value |-> r.value,
               replaced |-> IF imageData.id \in DOMAIN Images
                            THEN <<Images[imageData.id]>> ELSE <<>>]
    /\ maint' = Disturbed
    /\ UNCHANGED <<rtVars, now, kvVars, idbPresent, faulty, issued>>

PutAny == \E imageData \in PutInputs : PutImage(imageData)

LoadImage(imageId) ==
    LET r == loadGeneratedImage(World, lsItems, imageId) IN
    /\ SetWorld(r.w)
    /\ ret' = [op |-> "load", id |-> imageId, value |-> r.value,
               failed |-> r.failed]
    /\ UNCHANGED <<rtVars, now, kvVars, idbPresent, faulty, maint, issued>>

LoadAny == \E imageId \in MaintIds : LoadImage(imageId)

NextReplace ==
    \/ Tick
    \/ PutAny
    \/ LoadAny
    \/ DeleteAny

SpecReplace == Init /\ [][NextReplace]_vars

----------------------------------------------------------------------------
(* Content operations of the facade while the document store fails *)

NextContent ==
    \/ SaveWithId(MaintIds, {<<>>}, {<<83, 117, 110>>, <<>>})
    \/ LoadAny
    \/ ListRecentAny
    \/ SearchAny
    \/ DeleteAny
    \/ EnvIndexedDB
    \/ EnvFault
    \/ Reload

SpecContent == Init /\ [][NextContent]_vars

----------------------------------------------------------------------------
(* Document Store calls with their outcome: a resolved or a rejected promise *)

\* setItem, getItem, getAllItems, deleteItem, clearStore: the catch logs and
\* rethrows, so a failed call is a rejected promise.
Settled(r) == IF r.ok THEN Returns(r.value) ELSE Throws("error")

\* getDatabaseInfo(): the catch returns { error, available: false }.
getDatabaseInfoCall(W) ==
    LET o == initDatabase(W)
        body == IF ~o.ok \/ \E n \in o.w.stores : ~RequestOk(o.w, n)
                THEN Throws("error")
                ELSE Returns(getDatabaseInfo(W).value)
    IN Catch(body, [available |-> FALSE])

StoreOps == {"put", "get", "getAll", "delete", "clear", "info"}

\* One call of the document store on the images store.
StoreCall(call, id) ==
    LET r == CASE call = "put" ->
                    setItem(World, STORES.IMAGES, ImageData(id, <<>>, "sunset"), <<>>)
               [] call = "get" -> getItem(World, STORES.IMAGES, id)
               [] call = "getAll" -> getAllItems(World, STORES.IMAGES, "", 0)
               [] call = "delete" -> deleteItem(World, STORES.IMAGES, id)
               [] call = "clear" -> clearStore(World, STORES.IMAGES)
               [] OTHER -> getDatabaseInfo(World)
    IN /\ SetWorld(r.w)
       /\ ret' = [op |-> "store", call |-> call, present |-> isIndexedDBAvailable,
                  outcome |-> IF call = "info" THEN getDatabaseInfoCall(World)
                              ELSE Settled(r)]
       /\ maint' = Disturbed
       /\ UNCHANGED <<rtVars, now, kvVars, idbPresent, faulty, issued>>

StoreCallAny == \E call \in StoreOps, id \in MaintIds : StoreCall(call, id)

NextStore ==
    \/ Tick
    \/ StoreCallAny
    \/ EnvIndexedDB
    \/ EnvFault
    \/ Reload

SpecStore == Init /\ [][NextStore]_vars

----------------------------------------------------------------------------
(* Settings over the remote path with the local fallback: storage.js,
   SettingsPanel.jsx *)

\* What the Workers API answers to a request: a 2xx response, a 404, or
\* another failure (a 5xx response, a rejected fetch).
RemoteReplies == {"ok", "notFound", "error"}

\* CloudflareStorage.request: throws unless the response is ok; the error of
\* a response carries its status.
request(reply) ==
    IF reply = "ok" THEN Returns(reply)
    ELSE Throws(IF reply = "notFound" THEN 404 ELSE 500)

\* storage.saveConfig(userId, config): logs and rethrows.
saveConfig(reply) == request(reply)

\* storage.loadConfig(userId): the settings the server holds; null for a 404;
\* any other error is rethrown.
loadConfig(reply, served) ==
    LET o == request(reply) IN
    IF ~Threw(o) THEN Returns(served)
    ELSE IF o.throws = 404 THEN Returns(Null)
    ELSE o

\* `visual-ai-config-${userId}`
ConfigKey == "visual-ai-config-app"

\* localStorageFallback.saveConfig(userId, config): the items written, or the
\* error of localStorage.setItem rethrown.
fallbackSaveConfig(L, config) ==
    LsSetItem(L, ConfigKey,
              Stringify(Obj([k \in DOMAIN config.obj \cup {"savedAt"} |->
                              IF k = "savedAt" THEN Str(toISOString(now))
                              ELSE config.obj[k]])))

\* localStorageFallback.loadConfig(userId): the stored object, or null.
fallbackLoadConfig(L) ==
    IF ~lsEnabled \/ ConfigKey \notin DOMAIN L THEN Null
    ELSE IF Parse(L[ConfigKey]).ok THEN Parse(L[ConfigKey]).value
    ELSE Null

\* The colors of a loaded brand kit, filled up to five entries and cut there.
FiveColors(brandKit) ==
    LET c == Field(brandKit, "colors")
        colors == IF Truthy(c) /\ IsArr(c) THEN c.arr ELSE <<>>
    IN Arr([i \in 1..5 |-> IF i <= Len(colors) THEN colors[i] ELSE Str("")])

\* Brand kits the form holds when it is submitted.
PanelKits ==
    {Obj([colors |-> Arr([i \in 1..5 |-> Str("")]), typography |-> Str(t),
          styleKeywords |-> Str(""), campaignVariable |-> Str("")]) :
       t \in {"Bold", "Serif"}}

\* handleSubmit: the remote save, then the local one; any throw shows the
\* error toast.
HandleSubmit(brandKit, reply) ==
    LET configToSave == Obj([brandKit |-> brandKit])
        remote == saveConfig(reply)
        local == fallbackSaveConfig(lsItems, configToSave)
    IN /\ lsItems' = IF Threw(remote) \/ Threw(local) THEN lsItems
                     ELSE local.returns
       /\ ret' = [op |-> "submit", brandKit |-> brandKit, reply |-> reply,
                  shown |-> IF Threw(remote) \/ Threw(local)
                            THEN "error" ELSE "success",
                  fits |-> ~Threw(local)]
       /\ maint' = Disturbed
       /\ UNCHANGED <<rtVars, now, lsEnabled, lsOther, docVars, isInitialized, issued>>

\* loadSettings: the remote settings, the local ones when the remote has
\* none; the form takes the brand kit of what was found. A throw shows the
\* error toast and leaves the form as it was (brandKit <<>>).
LoadSettings(reply, served) ==
    LET remote == loadConfig(reply, served)
        config == IF Threw(remote) THEN Undef
                  ELSE IF ~Truthy(remote.returns) THEN fallbackLoadConfig(lsItems)
                  ELSE remote.returns
        found == Truthy(config) /\ Truthy(Field(config, "brandKit"))
    IN /\ ret' = [op |-> "loadSettings", reply |-> reply,
                  shown |-> IF Threw(remote) THEN "error" ELSE "none",
                  brandKit |->
                      IF found
                      THEN <<Obj([k \in DOMAIN config.obj.brandKit.obj \cup {"colors"} |->
                                    IF k = "colors"
                                    THEN FiveColors(config.obj.brandKit)
                                    ELSE config.obj.brandKit.obj[k]])>>
                      ELSE <<>>,
                  local |-> fallbackLoadConfig(lsItems)]
       /\ UNCHANGED <<rtVars, now, kvVars, docVars, isInitialized, maint, issued>>

HandleSubmitAny ==
    \E brandKit \in PanelKits, reply \in RemoteReplies :
        HandleSubmit(brandKit, reply)

LoadSettingsAny ==
    \E reply \in RemoteReplies, brandKit \in PanelKits :
        LoadSettings(reply, Obj([brandKit |-> brandKit]))

NextRemote ==
    \/ Tick
    \/ HandleSubmitAny
    \/ LoadSettingsAny
    \/ EnvLocalStorage
    \/ EnvQuota

SpecRemote == Init /\ [][NextRemote]_vars

----------------------------------------------------------------------------
(* Explicit initialization and status of the facade *)

\* getStorageStatus(): the initialized flag and the database information.
getStorageStatus(W) ==
    LET i == getDatabaseInfo(W) IN
    [value |-> [initialized |-> W.init, indexedDB |-> i.value,
                mode |-> "local-only"],
     w |-> i.w]

\* initializeStorage() called by the application.
InitializeStorage ==
    LET r == initializeStorage(World, lsItems) IN
    /\ SetWorld(r.w)
    /\ ret' = [op |-> "init", value |-> r.ok, before |-> isInitialized]
    /\ UNCHANGED <<rtVars, now, kvVars, idbPresent, faulty, maint, issued>>

\* getStorageStatus()
Status ==
    LET r == getStorageStatus(World) IN
    /\ SetWorld(r.w)
    /\ ret' = [op |-> "status", value |-> r.value]
    /\ UNCHANGED <<rtVars, now, kvVars, idbPresent, faulty, maint, issued>>

NextInit ==
    \/ InitializeStorage
    \/ Status
    \/ SaveWithId(MaintIds, {<<>>}, {<<83, 117, 110>>})
    \/ LoadAny
    \/ ListRecentAny
    \/ SearchAny
    \/ DeleteAny
    \/ EnvLocalStorage
    \/ EnvIndexedDB
    \/ Reload

SpecInit == Init /\ [][NextInit]_vars

----------------------------------------------------------------------------
(* Layouts of an image, and deleting the image *)

SelectWhere(q, field, value) ==
    LET Test(item) == item[field] = value IN SelectSeq(q, Test)

\* layouts.getByImageId(imageId): getAllItems with where: { imageId }.
layoutsGetByImageId(W, imageId) ==
    LET r == getAllItems(W, STORES.LAYOUTS, "", 0) IN
    [ok |-> r.ok,
     value |-> IF r.ok THEN SelectWhere(r.value, "imageId", imageId) ELSE <<>>,
     w |-> r.w]

\* getLayoutsForImage(imageId): [] when the read failed.
getLayoutsForImage(W, L, imageId) ==
    LET r == layoutsGetByImageId(initializeStorage(W, L).w, imageId) IN
    [value |-> r.value, failed |-> ~r.ok, w |-> r.w]

Layouts == db[STORES.LAYOUTS]

LayoutIds == {<<108>>, <<109>>}             \* "l", "m"

\* saveLayout(layoutData) of a layout with an id
PutLayout(layoutData) ==
    LET r == saveLayout(World, lsItems, layoutData, <<>>) IN
    /\ SetWorld(r.w)
    /\ ret' = [op |-> "saveLayout", data |-> layoutData, value |-> r.value]
    /\ UNCHANGED <<rtVars, now, kvVars, idbPresent, faulty, maint, issued>>

PutLayoutAny ==
    \E id \in LayoutIds, imageId \in MaintIds : PutLayout(LayoutData(id, imageId))

\* getLayoutsForImage(imageId)
ListLayouts(imageId) ==
    LET r == getLayoutsForImage(World, lsItems, imageId) IN
    /\ SetWorld(r.w)
    /\ ret' = [op |-> "layouts", id |-> imageId, value |-> r.value,
               failed |-> r.failed]
    /\ UNCHANGED <<rtVars, now, kvVars, idbPresent, faulty, maint, issued>>

ListLayoutsAny == \E imageId \in MaintIds : ListLayouts(imageId)

DeleteOne == \E imageId \in MaintIds : DeleteImage(imageId)

NextLayouts ==
    \/ Tick
    \/ SaveWithId(MaintIds, {<<>>}, {"sunset"})
    \/ PutLayoutAny
    \/ DeleteOne
    \/ ListLayoutsAny

SpecLayouts == Init /\ [][NextLayouts]_vars

----------------------------------------------------------------------------
(* Maintenance with saves between its awaits *)

NextMaintRace ==
    \/ Tick
    \/ SaveWithId(MaintIds, {<<>>}, {"sunset"})
    \/ MaintStartAny
    \/ MaintStep
    \/ MaintFinish

SpecMaintRace == Init /\ [][NextMaintRace]_vars

----------------------------------------------------------------------------
(* The diagnostic log: logError of errorHandling.js, in a production build *)

ErrorLogKey == "errorLog"

\* Keep only last 50 errors.
ErrorLogCap == 50

\* The report of an error, by its message; it takes one unit of the quota.
ErrorDetails(n) == Str(DecStr(n))

\* The log without its newest entries.
KeepFirst(q, n) == IF Len(q) > n THEN SubSeq(q, 1, n) ELSE q

\* errorLog.splice(0, errorLog.length - 50) when the log is longer than 50.
KeepLast(q, n) == IF Len(q) > n THEN SubSeq(q, Len(q) - n + 1, Len(q)) ELSE q

\* logError(error, context): the body of its try. getItem throws when storage
\* is off, JSON.parse throws on a text that is not JSON, push throws on a
\* value that is not an array, setItem throws when the text does not fit.
logErrorTry(L, details) ==
    IF ~lsEnabled THEN Throws("SecurityError")
    ELSE LET errorLog == IF ErrorLogKey \in DOMAIN L
                         THEN Parse(L[ErrorLogKey])
                         ELSE [ok |-> TRUE, value |-> Arr(<<>>)]
         IN IF ~errorLog.ok THEN Throws("SyntaxError")
            ELSE IF ~IsArr(errorLog.value) THEN Throws("TypeError")
            ELSE LsSetItem(L, ErrorLogKey,
                     Stringify(Arr(KeepLast(Append(errorLog.value.arr, details),
                                            ErrorLogCap))))

\* logError(error, context): the empty catch swallows every throw of the try.
logError(L, details) ==
    LET o == logErrorTry(L, details) IN
    [outcome |-> Catch(IF Threw(o) THEN o ELSE Returns(Undef), Undef),
     items |-> IF Threw(o) THEN L ELSE o.returns]

\* The entries of the stored log (none when it cannot be read).
ErrorLog(L) ==
    IF /\ ErrorLogKey \in DOMAIN L
       /\ Parse(L[ErrorLogKey]).ok
       /\ IsArr(Parse(L[ErrorLogKey]).value)
    THEN Parse(L[ErrorLogKey]).value.arr
    ELSE <<>>

\* Messages are numbered in the order in which they reach the log.
NextMessage(L) ==
    IF ErrorLog(L) = <<>> THEN 1
    ELSE LET last == ErrorLog(L)[Len(ErrorLog(L))].str IN
         IF Len(last) = 1 THEN last[1] - 48 + 1
         ELSE (last[1] - 48) * 10 + (last[2] - 48) + 1

\* logError(error, context)
LogError ==
    LET n == NextMessage(lsItems)
        r == logError(lsItems, ErrorDetails(n))
    IN /\ n <= MaxLogged
       /\ lsItems' = r.items
       /\ ret' = [op |-> "logError", details |-> ErrorDetails(n),
                  outcome |-> r.outcome, before |-> ErrorLog(lsItems),
                  written |-> ~Threw(logErrorTry(lsItems, ErrorDetails(n)))]
       /\ maint' = Disturbed
       /\ UNCHANGED <<rtVars, now, lsEnabled, lsOther, docVars, isInitialized, issued>>

\* Another script of the origin leaves a text that is not JSON, or a JSON
\* value that is not an array, under the log's key.
EnvCorruptLog ==
    /\ lsEnabled
    /\ \E text \in {[raw |-> "undefined"], [json |-> Null]} :
         /\ ~LsSetThrows(lsItems, ErrorLogKey, text)
         /\ lsItems' = [k \in DOMAIN lsItems \cup {ErrorLogKey} |->
                          IF k = ErrorLogKey THEN text ELSE lsItems[k]]
    /\ ret' = [op |-> "env"]
    /\ maint' = Disturbed
    /\ UNCHANGED <<rtVars, now, lsEnabled, lsOther, docVars, isInitialized, issued>>

\* The log is removed (by the user, or by a developer reading it).
EnvRemoveLog ==
    /\ ErrorLogKey \in DOMAIN lsItems
    /\ lsItems' = [k \in DOMAIN lsItems \ {ErrorLogKey} |-> lsItems[k]]
    /\ ret' = [op |-> "env"]
    /\ maint' = Disturbed
    /\ UNCHANGED <<rtVars, now, lsEnabled, lsOther, docVars, isInitialized, issued>>

NextErrorLog ==
    \/ LogError
    \/ EnvLocalStorage
    \/ EnvQuota
    \/ EnvCorruptLog
    \/ EnvRemoveLog

SpecErrorLog == Init /\ [][NextErrorLog]_vars

----------------------------------------------------------------------------
(* Opening a database that exists already, with some of the object stores *)

\* Records an object store of an existing database may hold.
ExistingRecords(storeName) ==
    IF storeName = STORES.IMAGES
    THEN {<<>>, Put(<<>>, <<105>>,
                    [ImageData(<<105>>, toISOString(0), "sunset")
                       EXCEPT !.type = "image", !.updatedAt = toISOString(0)])}
    ELSE IF storeName = STORES.LAYOUTS
    THEN {<<>>, Put(<<>>, <<108>>,
                    [LayoutData(<<108>>, <<105>>)
                       EXCEPT !.type = "layout", !.createdAt = toISOString(0),
                              !.updatedAt = toISOString(0)])}
    ELSE {<<>>}

\* A page that has not opened the database yet. The database does not exist
\* (version 0) or exists at the current version; it holds some of the declared
\* object stores, each as onupgradeneeded creates it, with records in them.
InitUpgrade ==
    /\ now = 0
    /\ lsItems = <<>>
    /\ lsEnabled = TRUE
    /\ lsOther = 0
    /\ idbPresent = TRUE
    /\ faulty = {}
    /\ dbInstance = "null"
    /\ dbVersion \in {0, DB_VERSION}
    /\ dbStores \in SUBSET StoreNames
    /\ dbIndexes = [n \in StoreNames |->
                      IF n \in dbStores THEN IndexNames(n) ELSE {}]
    /\ db \in [StoreNames -> UNION {ExistingRecords(n) : n \in StoreNames}]
    /\ \A n \in StoreNames :
         db[n] \in (IF n \in dbStores THEN ExistingRecords(n) ELSE {<<>>})
    /\ isInitialized = FALSE
    /\ maint = Idle
    /\ issued = <<>>
    /\ ret = [op |-> "none"]
    /\ conns = <<>>
    /\ cached = 0
    /\ opening = <<>>
    /\ calls = <<>>
    /\ txQueue = <<>>

\* initialize(): opens the database unless a connection is cached.
OpenDatabase ==
    LET r == initialize(World) IN
    /\ SetWorld(r.w)
    /\ ret' = [op |-> "open", ok |-> r.ok, before |-> World]
    /\ UNCHANGED <<rtVars, now, kvVars, idbPresent, faulty, maint, issued>>

NextUpgrade ==
    \/ OpenDatabase
    \/ SaveWithId(CallerIds, {<<>>}, {"sunset"})
    \/ EnvIndexedDB
    \/ Reload

SpecUpgrade == InitUpgrade /\ [][NextUpgrade]_vars

----------------------------------------------------------------------------
(* Document store calls step by step: the open request, the transaction and
   its request are events of their own, and other calls begin in between *)

\* The connection side of the state, threaded through a step.
Runtime ==
    [conns |-> conns, cached |-> cached, opening |-> opening, calls |-> calls,
     txQueue |-> txQueue]

SetRuntime(s) ==
    /\ conns' = s.conns
    /\ cached' = s.cached
    /\ opening' = s.opening
    /\ calls' = s.calls
    /\ txQueue' = s.txQueue
    /\ dbInstance' = IF s.cached = 0 THEN "null" ELSE "open"

\* setItem: the fields it fills in before store.put(item).
FillItem(item) ==
    [item EXCEPT
       !.id = IF item.id = <<>> THEN generateId(<<>>) ELSE item.id,
       !.createdAt = IF item.createdAt = <<>> THEN toISOString(now)
                     ELSE item.createdAt,
       !.updatedAt = toISOString(now)]

\* The call after `await initDatabase()` has given it connection k:
\* db.transaction(...) throws on a closed connection; else the transaction is
\* created and the put request is placed in it.
Continue(s, c, k) ==
    IF s.conns[k] = "closed"
    THEN [s EXCEPT !.calls[c].pc = "done", !.calls[c].ok = FALSE,
                   !.calls[c].conn = k]
    ELSE [s EXCEPT !.calls[c].pc = "queued", !.calls[c].conn = k,
                   !.calls[c].item = FillItem(@),
                   !.txQueue = Append(@, c)]

\* setItem(STORES.IMAGES, item) as far as it runs at once: initDatabase rejects
\* without IndexedDB, resolves with the cached connection, or requests an open.
Begin(s, item) ==
    LET c == Len(s.calls) + 1
        new == [kind |-> "put", pc |-> "opening", ok |-> FALSE, conn |-> 0,
                item |-> item]
        t == [s EXCEPT !.calls = Append(@, new)]
    IN IF ~isIndexedDBAvailable THEN [t EXCEPT !.calls[c].pc = "done"]
       ELSE IF s.cached # 0 THEN Continue(t, c, s.cached)
       ELSE [t EXCEPT !.opening = Append(@, c)]

\* Transactions run in any order.
RunnableAny(q) == 1..Len(q)

\* The transactions that may run next: those with the same object store in
\* scope run in the order in which they were created.
Runnable(q) == IF q = <<>> THEN {} ELSE {1}

\* A connection closes without close() having been called: its onclose handler
\* keeps the cached connection.
oncloseKeeping(k) == cached

\* dbInstance.onclose: dbInstance = null.
onclose(k) == 0

\* The page is loaded: indexedDB.js starts without a connection, and
\* dataStorage.js calls initializeStorage(), whose initDatabase() requests an
\* open (call 1, with no item to put).
PageLoad ==
    LET none == [kind |-> "init", pc |-> "opening", ok |-> FALSE, conn |-> 0,
                 item |-> ImageData(<<>>, <<>>, "")]
    IN /\ SetRuntime([conns |-> <<>>, cached |-> 0,
                      opening |-> IF isIndexedDBAvailable THEN <<1>> ELSE <<>>,
                      calls |-> <<[none EXCEPT
                                     !.pc = IF isIndexedDBAvailable
                                            THEN "opening" ELSE "done"]>>,
                      txQueue |-> <<>>])
       /\ isInitialized' = (~isIndexedDBAvailable /\ isLocalStorageAvailable(lsItems))
       /\ ret' = [op |-> "pageLoad"]
       /\ maint' = Idle
       /\ UNCHANGED <<now, kvVars, idbPresent, faulty, dbVersion, dbStores,
                      dbIndexes, db, issued>>

\* A caller begins setItem(STORES.IMAGES, item).
BeginCall(item) ==
    /\ Len(calls) < MaxCalls
    /\ SetRuntime(Begin(Runtime, item))
    /\ ret' = [op |-> "begin", count |-> 1]
    /\ UNCHANGED <<now, kvVars, idbPresent, faulty, dbVersion, dbStores,
                   dbIndexes, db, isInitialized, maint, issued>>

\* A caller begins two calls one after the other without waiting in between.
BeginPair(item1, item2) ==
    /\ Len(calls) + 1 < MaxCalls
    /\ SetRuntime(Begin(Begin(Runtime, item1), item2))
    /\ ret' = [op |-> "begin", count |-> 2]
    /\ UNCHANGED <<now, kvVars, idbPresent, faulty, dbVersion, dbStores,
                   dbIndexes, db, isInitialized, maint, issued>>

\* request.onsuccess of the oldest pending open request: the connection is
\* cached, whatever dbInstance was, and the call goes on with it. The call of
\* initializeStorage() ends here and sets the facade's flag.
OpenSuccess ==
    /\ opening # <<>>
    /\ LET c == Head(opening)
           k == Len(conns) + 1
           W == IF dbVersion < DB_VERSION THEN Upgrade(World) ELSE World
           s == [Runtime EXCEPT !.conns = Append(@, "open"), !.cached = k,
                                !.opening = Tail(@)]
       IN /\ SetRuntime(IF calls[c].kind = "init"
                        THEN [s EXCEPT !.calls[c].pc = "done",
                                       !.calls[c].ok = TRUE, !.calls[c].conn = k]
                        ELSE Continue(s, c, k))
          /\ dbVersion' = W.ver
          /\ dbStores' = W.stores
          /\ dbIndexes' = W.indexes
          /\ db' = W.data
          /\ isInitialized' = (isInitialized \/ calls[c].kind = "init")
    /\ ret' = [op |-> "opened"]
    /\ UNCHANGED <<now, kvVars, idbPresent, faulty, maint, issued>>

\* A transaction runs: its put request succeeds, or fails on a failing store.
TxRun ==
    \E i \in Runnable(txQueue) :
        LET c == txQueue[i]
            ok == RequestOk(World, STORES.IMAGES)
        IN /\ SetRuntime([Runtime EXCEPT
                            !.calls[c].pc = "done", !.calls[c].ok = ok,
                            !.txQueue = SubSeq(@, 1, i - 1)
                                          \o SubSeq(@, i + 1, Len(@))])
           /\ db' = IF ok
                    THEN [db EXCEPT ![STORES.IMAGES] =
                            Put(@, calls[c].item.id, calls[c].item)]
                    ELSE db
           /\ ret' = [op |-> "ran", call |-> c]
           /\ maint' = Disturbed
           /\ UNCHANGED <<now, kvVars, idbPresent, faulty, dbVersion, dbStores,
                          dbIndexes, isInitialized, issued>>

\* The runtime closes connection k (the storage was evicted, the disk failed):
\* its transactions abort and its close event is handled.
EnvClose(k) ==
    /\ k \in 1..Len(conns)
    /\ conns[k] = "open"
    /\ LET aborted == {i \in 1..Len(calls) :
                         calls[i].pc = "queued" /\ calls[i].conn = k}
           Waits(c) == c \notin aborted
       IN SetRuntime([Runtime EXCEPT
                        !.conns[k] = "closed",
                        !.cached = onclose(k),
                        !.calls = [i \in 1..Len(calls) |->
                                     IF i \in aborted
                                     THEN [calls[i] EXCEPT !.pc = "done",
                                                           !.ok = FALSE]
                                     ELSE calls[i]],
                        !.txQueue = SelectSeq(@, Waits)])
    /\ ret' = [op |-> "closed", conn |-> k]
    /\ maint' = Disturbed
    /\ UNCHANGED <<now, kvVars, idbPresent, faulty, dbVersion, dbStores,
                   dbIndexes, db, isInitialized, issued>>

\* Items callers put: two prompts under each of two ids.
CallItems == {ImageData(id, <<>>, prompt) : id \in MaintIds, prompt \in Prompts}

BeginAny == \E item \in CallItems : BeginCall(item)

\* The same call again and again.
BeginOne == BeginCall(ImageData(<<105>>, <<>>, "sunset"))

\* Calls begun while the page loads and after.
NextConnect ==
    \/ PageLoad
    \/ BeginAny
    \/ OpenSuccess
    \/ TxRun

SpecConnect == Init /\ [][NextConnect]_vars


CloseAny == \E k \in 1..Len(conns) : EnvClose(k)

\* Calls on connections that the runtime closes.
NextReopen ==
    \/ PageLoad
    \/ BeginOne
    \/ OpenSuccess
    \/ TxRun
    \/ CloseAny
    \/ EnvIndexedDB

SpecReopen == Init /\ [][NextReopen]_vars


----------------------------------------------------------------------------
(* Two writes to one key begun without waiting in between *)

\* saveBrandKit(v1); saveBrandKit(v2): each runs setStorageItem before it
\* returns its promise.
SaveSettingPair(key, v1, v2) ==
    LET r1 == setStorageItem(lsItems, key, v1)
        r2 == setStorageItem(r1.items, key, v2)
    IN /\ lsItems' = r2.items
       /\ ret' = [op |-> "setPair", key |-> key, first |-> v1, second |-> v2,
                  ok1 |-> r1.ok, ok2 |-> r2.ok]
       /\ maint' = Disturbed
       /\ UNCHANGED <<rtVars, now, lsEnabled, lsOther, docVars, isInitialized,
                      issued>>

SaveSettingPairAny ==
    \E v1, v2 \in TypedValues(STORAGE_KEYS.BRAND_KIT) :
        SaveSettingPair(STORAGE_KEYS.BRAND_KIT, v1, v2)

\* saveGeneratedImage twice with one id and two prompts.
BeginPairAny ==
    \E id \in MaintIds :
        BeginPair(ImageData(id, <<>>, "sunset"), ImageData(id, <<>>, "beach"))

NextOrder ==
    \/ PageLoad
    \/ BeginPairAny
    \/ OpenSuccess
    \/ TxRun
    \/ CloseAny
    \/ SaveSettingPairAny
    \/ EnvQuota

SpecOrder == Init /\ [][NextOrder]_vars

Next ==
    \/ NextKV
    \/ NextIds
    \/ NextPut
    \/ NextRecent
    \/ NextMaint
    \/ NextReset
    \/ NextBackup
    \/ NextKVCalls
    \/ NextImport
    \/ NextExport
    \/ NextPrompts
    \/ NextSearch
    \/ NextReplace
    \/ NextContent
    \/ NextStore
    \/ NextRemote
    \/ NextInit
    \/ NextLayouts
    \/ NextMaintRace
    \/ NextErrorLog
    \/ NextUpgrade
    \/ NextConnect
    \/ NextReopen
    \/ NextOrder

Spec == Init /\ [][Next]_vars

----------------------------------------------------------------------------
(* Claims about the facade's backup operations, checked under SpecBackup *)

\* getItem(images, id) finds a record.
Retrievable(id) ==
    LET g == getItem(World, STORES.IMAGES, id) IN g.ok /\ g.value # <<>>

SnapshotItems(data) ==
    [k \in Keys |->
        Stringify(CASE k = STORAGE_KEYS.BRAND_KIT -> data.brandKit
                    [] k = STORAGE_KEYS.USER_INFO -> data.userInfo
                    [] k = STORAGE_KEYS.CAMPAIGN_VARIABLE -> data.campaignVariable
                    [] k = STORAGE_KEYS.APP_PREFERENCES -> data.appPreferences
                    [] OTHER -> data.recentPrompts)]

----------------------------------------------------------------------------
(* Claims about maintenance, checked under SpecMaint *)

\* A performMaintenance call has returned, no other call having run between
\* its start and its end.
Maintained == ret.op = "maintenance" /\ ret.quiet /\ maint.pc = "idle"

\* The record was created more than daysOld days before the call.
CreatedBefore(rec, at, daysOld) ==
    DateParse(rec.createdAt).ok /\ DateParse(rec.createdAt).ms < at - daysOld

\* C2 (as claimed): performMaintenance deletes exactly the images created more
\* than daysOld days before now, leaves every other record in place, and
\* returns the number of records it deleted.
C2_MaintenanceDeletesExactlyTheOld ==
    Maintained =>
        LET old == {id \in DOMAIN ret.before :
                      CreatedBefore(ret.before[id], ret.at, ret.daysOld)}
        IN /\ DOMAIN Images = DOMAIN ret.before \ old
           /\ \A id \in DOMAIN Images : Images[id] = ret.before[id]
           /\ ret.deletedItems = Cardinality(old)

\* The same, of the records whose createdAt is a timestamp (as every createdAt
\* the store fills in is).
MaintenanceExactOnTimestamps ==
    Maintained =>
        LET stamped == {id \in DOMAIN ret.before :
                          DateParse(ret.before[id].createdAt).ok}
            old == {id \in stamped :
                      CreatedBefore(ret.before[id], ret.at, ret.daysOld)}
        IN /\ DOMAIN Images \cap stamped = stamped \ old
           /\ \A id \in DOMAIN Images : Images[id] = ret.before[id]
           /\ ret.deletedItems = Cardinality(DOMAIN ret.before \ DOMAIN Images)

\* C3 (as claimed): performMaintenance never deletes a record whose createdAt
\* is no timestamp, whatever the age limit.
C3_MaintenanceKeepsUnparseable ==
    Maintained =>
        \A id \in DOMAIN ret.before :
            ~DateParse(ret.before[id].createdAt).ok => id \in DOMAIN Images

----------------------------------------------------------------------------
(* Claims about puts, checked under SpecPut and SpecIds *)

\* C4 (as claimed): a later put of an id leaves its createdAt as the first put
\* set it, and makes its updatedAt strictly greater.
C4_CreatedAtFixedUpdatedAtGrows ==
    [][\A n \in StoreNames : \A id \in DOMAIN db[n] \cap DOMAIN db'[n] :
          /\ db'[n][id].createdAt = db[n][id].createdAt
          /\ db'[n][id] # db[n][id] =>
                StrLess(db[n][id].updatedAt, db'[n][id].updatedAt)]_vars

----------------------------------------------------------------------------
(* Claims about the full reset, checked under SpecReset *)

\* C6 (as claimed): clearAll() clears every store whose clear can succeed, also
\* when the clear of another store fails, and returns true exactly when every
\* store could be cleared.
C6_ClearAllAttemptsEveryStore ==
    ret.op = "clear" =>
        /\ ret.avail => Keys \cap DOMAIN lsItems = {}
        /\ \A n \in StoreNames :
              (initDatabase(World).ok /\ RequestOk(World, n)) => db[n] = <<>>
        /\ ret.value <=>
              /\ ret.avail
              /\ initDatabase(World).ok
              /\ \A n \in StoreNames : RequestOk(World, n)

----------------------------------------------------------------------------
(* Claims about listing the recent images, checked under SpecRecent *)

Min(a, b) == IF a < b THEN a ELSE b

TimeOf(rec) == DateParse(rec.createdAt)

\* The call returned (it did not fail) with a positive limit.
Listed == ret.op = "recent" /\ ~ret.failed /\ ret.limit > 0

ListedRecords == {ret.value[i] : i \in 1..Len(ret.value)}

AllRecords == {Images[id] : id \in DOMAIN Images}

\* C7 (as claimed): listRecent(limit), limit > 0, returns min(limit, n) records
\* in strictly decreasing createdAt order.
C7_ListRecentStrictlyDecreasing ==
    Listed =>
        /\ Len(ret.value) = Min(ret.limit, Cardinality(DOMAIN Images))
        /\ \A i, j \in 1..Len(ret.value) :
              i < j => /\ TimeOf(ret.value[i]).ok /\ TimeOf(ret.value[j]).ok
                       /\ TimeOf(ret.value[i]).ms > TimeOf(ret.value[j]).ms

\* C7 (amended): listRecent(limit), limit > 0, returns min(limit, n) distinct
\* records of the collection; when the createdAt of each is a timestamp they
\* are in non-increasing createdAt order (records created at the same instant
\* follow one another).
C7_ListRecentNonIncreasing ==
    Listed =>
        /\ Len(ret.value) = Min(ret.limit, Cardinality(DOMAIN Images))
        /\ Cardinality(ListedRecords) = Len(ret.value)
        /\ ListedRecords \subseteq AllRecords
        /\ (\A r \in ListedRecords : TimeOf(r).ok) =>
              \A i, j \in 1..Len(ret.value) :
                  i < j => TimeOf(ret.value[i]).ms >= TimeOf(ret.value[j]).ms

\* Two of three records were listed, created at different instants.
C7_Witness ==
    /\ Listed /\ Len(ret.value) = 2 /\ Cardinality(DOMAIN Images) = 3
    /\ TimeOf(ret.value[1]).ok /\ TimeOf(ret.value[2]).ok
    /\ TimeOf(ret.value[1]).ms > TimeOf(ret.value[2]).ms

\* C8 (as claimed): no record left out of listRecent(limit) was created later
\* than a record it returned.
C8_ListRecentReturnsTheMostRecent ==
    Listed =>
        \A r \in ListedRecords : \A q \in AllRecords \ ListedRecords :
            ~(TimeOf(q).ok /\ TimeOf(r).ok /\ TimeOf(q).ms > TimeOf(r).ms)


----------------------------------------------------------------------------
(* Claims about the Key-Value Store, checked under SpecKV *)

ObjectCategories ==
    {STORAGE_KEYS.BRAND_KIT, STORAGE_KEYS.USER_INFO, STORAGE_KEYS.APP_PREFERENCES}

\* C9 (as claimed): a loaded brand kit, user info or app preferences record has
\* every field of the category's documented default defined.
C9_LoadedRecordIsFull ==
    (ret.op = "get" /\ ret.key \in ObjectCategories) =>
        \A f \in DOMAIN DefaultOf(ret.key).obj : ~IsUndef(Field(ret.value, f))

\* What the following get(key, default) returns, for the category default and
\* for a default that no stored value equals.
ReadsBack(key, value) ==
    /\ getStorageItem(lsItems, key, DefaultOf(key)) = value
    /\ getStorageItem(lsItems, key, Undef) = value

\* C10 (as claimed): with the mechanism available, set(key, v) of a JSON value
\* returns true and the following get returns v, also after a reload.
C10_SetThenGet ==
    (ret.op = "set" /\ ret.avail /\ IsJson(ret.value)) =>
        (ret.ok /\ ReadsBack(ret.key, ret.value))

\* C10 (amended): with the mechanism available and room in the quota for the
\* text, set(key, v) of a JSON value returns true; and the following get, also
\* after a reload, returns v whenever the quota still has room for the test
\* write by which get probes the mechanism.
C10_SetThenGetWithinQuota ==
    (ret.op = "set" /\ ret.avail /\ ret.fits /\ IsJson(ret.value)) =>
        /\ ret.ok
        /\ isLocalStorageAvailable(lsItems) => ReadsBack(ret.key, ret.value)

\* A non-default brand kit was saved, the page reloaded since.
C10_Witness ==
    /\ ret.op = "set" /\ ret.avail /\ ret.fits /\ ret.ok /\ ret.reloaded
    /\ isLocalStorageAvailable(lsItems)
    /\ ret.key = STORAGE_KEYS.BRAND_KIT /\ ret.value = KitFull

----------------------------------------------------------------------------
(* Claims about the Key-Value Store's error handling, checked under SpecKVCalls *)

KVCallOps == {"getItem", "setItem", "removeItem", "clearItems"}

\* C11: no Key-Value Store call throws; get returns exactly its default when
\* the mechanism is unavailable, the key is absent or the stored text does not
\* parse; set, remove and clear return false when the mechanism is unavailable
\* and set returns false when its write fails.
C11_KeyValueStoreNeverThrows ==
    ret.op \in KVCallOps =>
        /\ ~Threw(ret.outcome)
        /\ (ret.op = "getItem" /\ (~ret.avail \/ ~ret.stored \/ ~ret.parses)) =>
              ret.outcome = Returns(ret.default)
        /\ (ret.op # "getItem" /\ ~ret.avail) => ret.outcome = Returns(FALSE)
        /\ (ret.op = "setItem" /\ ~ret.written) => ret.outcome = Returns(FALSE)

\* A get of a stored text that is no JSON, with the mechanism available, and
\* a default that is not the category's.
C11_Witness ==
    /\ ret.op = "getItem" /\ ret.avail /\ ret.stored /\ ~ret.parses
    /\ ret.default = Str("fallback") /\ ret.outcome = Returns(Str("fallback"))

\* A set refused by the quota with the mechanism available.
C11_WitnessQuota ==
    /\ ret.op = "setItem" /\ ret.avail /\ ~ret.written
    /\ ~HasCycle(ret.value) /\ ret.outcome = Returns(FALSE)

----------------------------------------------------------------------------
(* Claims about imports, checked under SpecImport *)

\* The text stored under a key, if any.
StoredAt(L, key) == IF key \in DOMAIN L THEN <<L[key]>> ELSE <<>>

\* Every snapshot exportAllUserData() returns in SpecImport has the settings of
\* one of FullSnapshots.
ExportsAreSnapshots ==
    ret.op = "export" =>
        \E s \in FullSnapshots :
            \A k \in Keys : SnapshotField(ret.value, k) = SnapshotField(s, k)

\* C12: an import leaves the stored text of every settings category whose field
\* is absent from the snapshot as it was, and leaves the collections as they
\* were when the snapshot has no images field.
C12_ImportLeavesAbsentUntouched ==
    [][ret'.op = "import" =>
          /\ \A key \in Keys :
                IsUndef(SnapshotField(ret'.data, key)) =>
                    StoredAt(lsItems', key) = StoredAt(lsItems, key)
          /\ ~ret'.data.hasImages => db' = db]_vars

\* A snapshot without brand kit and without images was imported over a saved
\* brand kit and a stored image; the campaign variable it holds was written.
C12_Witness ==
    /\ ret.op = "import"
    /\ IsUndef(ret.data.brandKit) /\ ~ret.data.hasImages
    /\ StoredAt(lsItems, STORAGE_KEYS.BRAND_KIT) = <<Stringify(KitFull)>>
    /\ StoredAt(lsItems, STORAGE_KEYS.CAMPAIGN_VARIABLE) = <<Stringify(Str("spring"))>>
    /\ ret.settings[STORAGE_KEYS.CAMPAIGN_VARIABLE] = Str("")
    /\ DOMAIN Images # {}


\* The recent-prompts list as stored, if one is stored.
StoredPrompts ==
    IF /\ STORAGE_KEYS.RECENT_PROMPTS \in DOMAIN lsItems
       /\ Parse(lsItems[STORAGE_KEYS.RECENT_PROMPTS]).ok
       /\ IsArr(Parse(lsItems[STORAGE_KEYS.RECENT_PROMPTS]).value)
    THEN Parse(lsItems[STORAGE_KEYS.RECENT_PROMPTS]).value.arr
    ELSE <<>>

\* C13 (as claimed): after an import of any snapshot the stored recent-prompts
\* list has at most 10 entries.
C13_ImportKeepsPromptCap ==
    ret.op = "import" => Len(StoredPrompts) <= MaxRecentPrompts

\* C14 (as claimed): importing, in any later state, a snapshot exportAll() took
\* in a state S makes every settings category read as it did in S, an empty
\* campaign variable included (the mechanism being available).
C14_SnapshotRoundTrips ==
    (ret.op = "import" /\ ret.data \in FullSnapshots
        /\ isLocalStorageAvailable(lsItems)) =>
        \A key \in Keys : categoryGet(lsItems, key) = SnapshotField(ret.data, key)

\* The same, of the categories whose value in the snapshot is not empty.
SnapshotRoundTripsWhereTruthy ==
    (ret.op = "import" /\ ret.data \in FullSnapshots
        /\ isLocalStorageAvailable(lsItems)) =>
        \A key \in Keys :
            Truthy(SnapshotField(ret.data, key)) =>
                categoryGet(lsItems, key) = SnapshotField(ret.data, key)

----------------------------------------------------------------------------
(* Claims about the export, checked under SpecExport *)

\* C15: exportAll() leaves every stored settings key and every record of the
\* images, layouts and projects collections as they were before the call.
C15_ExportIsPureRead ==
    [][ret'.op = "export" => (lsItems' = lsItems /\ db' = db)]_vars

\* An export was made of stored settings, a stored image and a stored layout.
C15_Witness ==
    /\ ret.op = "export"
    /\ Len(ret.value.images) = 1
    /\ ret.value.campaignVariable = Str("spring")
    /\ DOMAIN lsItems # {} /\ DOMAIN Images # {}
    /\ DOMAIN db[STORES.LAYOUTS] # {}

----------------------------------------------------------------------------
(* Claims about the recent prompts, checked under SpecPrompts *)

----------------------------------------------------------------------------
(* Claims about search, checked under SpecSearch *)

Searched == ret.op = "search" /\ ~ret.failed

FoundRecords == {ret.value[i] : i \in 1..Len(ret.value)}

\* text is a substring of prompt, letters compared without regard to case.
ContainsIgnoringCase(prompt, text) ==
    \E i \in 0..(Len(prompt) - Len(text)) :
        \A j \in 1..Len(text) :
            LET c == prompt[i + j]
                d == text[j]
            IN \/ c = d
               \/ c >= 65 /\ c <= 90 /\ d = c + 32
               \/ d >= 65 /\ d <= 90 /\ c = d + 32

\* C17 (as claimed): search(text) returns exactly the records of the images
\* collection whose prompt contains text, compared case-insensitively.
C17_SearchReturnsExactlyMatches ==
    Searched =>
        /\ FoundRecords =
              {r \in AllRecords : ContainsIgnoringCase(r.prompt, ret.text)}
        /\ Cardinality(FoundRecords) = Len(ret.value)

\* C17 (amended): search(text) returns, each once, exactly the records of the
\* images collection whose prompt is not empty and contains text, compared
\* case-insensitively; a record whose prompt is empty is never returned, not
\* even by search("").
C17_SearchReturnsNonEmptyMatches ==
    Searched =>
        /\ FoundRecords =
              {r \in AllRecords :
                 r.prompt # <<>> /\ ContainsIgnoringCase(r.prompt, ret.text)}
        /\ Cardinality(FoundRecords) = Len(ret.value)

\* search("UN") found the records with prompts "Sun" and "un" and left out the
\* record with prompt "s".
C17_Witness ==
    /\ Searched /\ ret.text = <<85, 78>>
    /\ Cardinality(DOMAIN Images) = 3
    /\ {r.prompt : r \in FoundRecords} = {<<83, 117, 110>>, <<117, 110>>}
    /\ \E r \in AllRecords : r.prompt = <<115>>

----------------------------------------------------------------------------
(* Claims about replace semantics, checked under SpecReplace *)

\* The fields setItem and images.save fill in.
FilledFields == {"id", "type", "createdAt", "updatedAt"}

\* C18: a put returns the id under which its record is stored, and a get of
\* that id returns a record with exactly the fields of the record put (id,
\* type, createdAt and updatedAt filled in), each with the value put: no field
\* of the record it replaced is left.
C18_PutReplaces ==
    (ret.op = "put" /\ ret.value # <<>>) =>
        LET g == getItem(World, STORES.IMAGES, ret.value) IN
        /\ g.ok /\ g.value # <<>>
        /\ g.value[1].id = ret.value
        /\ ret.data.id # <<>> => ret.value = ret.data.id
        /\ DOMAIN g.value[1] = DOMAIN ret.data
        /\ \A f \in DOMAIN ret.data \ FilledFields : g.value[1][f] = ret.data[f]
        /\ g.value[1].createdAt # <<>> /\ g.value[1].updatedAt # <<>>

\* A record without platform and without prompt was put over one that had both.
C18_Witness ==
    /\ ret.op = "put" /\ ret.value # <<>>
    /\ ret.replaced # <<>>
    /\ "platform" \in DOMAIN ret.replaced[1] /\ ret.replaced[1].prompt = "sunset"
    /\ "platform" \notin DOMAIN ret.data /\ ret.data.prompt = ""
    /\ "platform" \notin DOMAIN Images[ret.value]

----------------------------------------------------------------------------
(* Claims about failures of the document store, checked under SpecContent *)

\* C19: when the document store fails, loadGeneratedImage, getRecentImages and
\* searchImages do not hand their caller the value that also means "not found"
\* (null) or "no records" (the empty list).
C19_ContentFailuresAreExplicit ==
    (ret.op \in {"load", "recent", "search"} /\ ret.failed) => ret.value # <<>>

----------------------------------------------------------------------------
(* Claims about an absent IndexedDB, checked under SpecStore *)

\* C20: with IndexedDB absent, every document store call (put, get, getAll,
\* delete, clear, info) ends in an error that reaches its caller.
C20_AbsentMechanismFailsEveryCall ==
    (ret.op = "store" /\ ~ret.present) => Threw(ret.outcome)

----------------------------------------------------------------------------
(* Claims about the remote path and its local fallback, checked under
   SpecRemote *)

\* C21: a settings save whose remote call fails still stores the settings
\* locally (when the local write is possible), and a settings load whose remote
\* call fails shows the locally stored brand kit instead of failing.
C21_RemoteFailureFallsBackToLocal ==
    /\ (ret.op = "submit" /\ ret.reply # "ok" /\ ret.fits) =>
          Field(fallbackLoadConfig(lsItems), "brandKit") = ret.brandKit
    /\ (ret.op = "loadSettings" /\ ret.reply # "ok"
          /\ Truthy(Field(ret.local, "brandKit"))) =>
          /\ ret.shown # "error"
          /\ ret.brandKit = <<Field(ret.local, "brandKit")>>

----------------------------------------------------------------------------
(* Claims about initialization of the facade, checked under SpecInit *)

ContentOps == {"save", "load", "recent", "search", "delete"}

\* C22: once the facade is initialized it stays so until the page is reloaded;
\* initializeStorage then returns true and leaves the connection and the data
\* as they are, whatever has become of the stores; status() reports the flag;
\* and a content operation called on an uninitialized facade initializes it
\* whenever one of the two stores is usable.
C22_InitializationIdempotentAndImplicit ==
    [][/\ (isInitialized /\ ret'.op # "reload") => isInitialized'
       /\ (isInitialized /\ ret'.op = "init") =>
             /\ ret'.value
             /\ <<dbInstance, dbVersion, dbStores, dbIndexes, db>>' =
                  <<dbInstance, dbVersion, dbStores, dbIndexes, db>>
       /\ ret'.op = "status" => ret'.value.initialized = isInitialized'
       /\ (ret'.op \in ContentOps
             /\ (isLocalStorageAvailable(lsItems) \/ isIndexedDBAvailable)) =>
             isInitialized'
      ]_vars

\* initializeStorage returned true on an initialized facade although neither
\* store is usable any more.
C22_Witness ==
    /\ ret.op = "init" /\ ret.before /\ ret.value
    /\ ~isLocalStorageAvailable(lsItems) /\ ~isIndexedDBAvailable

\* A content operation initialized the facade.
C22_WitnessImplicit ==
    /\ ret.op \in ContentOps
    /\ isInitialized /\ dbInstance = "null"

----------------------------------------------------------------------------
(* Claims about layouts of deleted images, checked under SpecLayouts *)

\* The layouts of collection f whose imageId is id.
LayoutsIn(f, id) == {f[i] : i \in {j \in DOMAIN f : f[j].imageId = id}}

\* C23: deleteGeneratedImage(id) removes the image record with that id and
\* nothing else: the layouts collection is unchanged, layouts of the deleted
\* image included; and getLayoutsForImage(id) returns exactly the layouts whose
\* imageId is id, each once.
C23_DeleteDoesNotCascade ==
    [][/\ ret'.op = "delete" =>
             /\ db'[STORES.LAYOUTS] = db[STORES.LAYOUTS]
             /\ DOMAIN db'[STORES.IMAGES] = DOMAIN db[STORES.IMAGES] \ {ret'.id}
             /\ \A i \in DOMAIN db'[STORES.IMAGES] :
                   db'[STORES.IMAGES][i] = db[STORES.IMAGES][i]
       /\ ret'.op = "layouts" =>
             /\ {ret'.value[k] : k \in 1..Len(ret'.value)} = LayoutsIn(db'[STORES.LAYOUTS], ret'.id)
             /\ Len(ret'.value) = Cardinality(LayoutsIn(db'[STORES.LAYOUTS], ret'.id))
      ]_vars

\* An image that had layouts was deleted, and its layouts are still stored.
C23_Witness ==
    /\ ret.op = "delete" /\ ret.existed /\ ret.value
    /\ ret.id \notin DOMAIN Images
    /\ LayoutsIn(Layouts, ret.id) # {}

----------------------------------------------------------------------------
(* Claims about maintenance that runs while images are saved, checked under
   SpecMaintRace *)

\* C26: whatever saves run between the steps of a maintenance call, a step
\* deletes a record only if the record stored under that id at that moment was
\* created before the cutoff of the call.
C26_MaintenanceDeletesOnlyWhatIsOldNow ==
    [][(maint.pc = "loop" /\ maint'.pc = "loop"
          /\ maint'.deletedCount > maint.deletedCount
          /\ Head(maint.queue).id \in DOMAIN Images) =>
          CreatedBefore(Images[Head(maint.queue).id], maint.at, maint.daysOld)
      ]_vars

----------------------------------------------------------------------------
(* Claims about the diagnostic log, checked under SpecErrorLog *)

\* q is the end of p: the entries of p from some position on.
IsSuffix(q, p) ==
    /\ Len(q) <= Len(p)
    /\ \A i \in 1..Len(q) : q[i] = p[Len(p) - Len(q) + i]

\* C28: the stored log never holds more than 50 entries; a logError call
\* returns without throwing whether or not the log could be read and written;
\* when it wrote, the log is the end of the old log followed by the new entry,
\* 50 entries of it at most and all of it when there are fewer (insertion
\* order, the oldest evicted first); when it did not, the log is as it was.
C28_ErrorLogBoundedOldestEvicted ==
    /\ Len(ErrorLog(lsItems)) <= ErrorLogCap
    /\ ret.op = "logError" =>
          /\ ~Threw(ret.outcome)
          /\ ret.written =>
                /\ IsSuffix(ErrorLog(lsItems), Append(ret.before, ret.details))
                /\ ErrorLog(lsItems) # <<>>
                /\ ErrorLog(lsItems)[Len(ErrorLog(lsItems))] = ret.details
                /\ Len(ErrorLog(lsItems)) =
                     IF Len(ret.before) < ErrorLogCap
                     THEN Len(ret.before) + 1 ELSE ErrorLogCap
          /\ ~ret.written => ErrorLog(lsItems) = ret.before

\* The log was full and an entry was added: the oldest one is gone.
C28_Witness ==
    /\ ret.op = "logError" /\ ret.written
    /\ Len(ret.before) = ErrorLogCap
    /\ ErrorLog(lsItems)[1] = ret.before[2]

\* A call that could not write the log returned all the same.
C28_WitnessSwallowed ==
    /\ ret.op = "logError" /\ ~ret.written /\ ~Threw(ret.outcome)
    /\ ret.before # <<>>

----------------------------------------------------------------------------
(* Claims about the result of an import, checked under SpecImport *)

\* C29: importUserData returns true only if every settings field the snapshot
\* holds (and the import writes: the truthy ones) is stored as the snapshot has
\* it, and every image of the snapshot is in the images collection.
C29_ImportTrueOnlyIfPersisted ==
    (ret.op = "import" /\ ret.value) =>
        /\ \A key \in Keys :
              Truthy(SnapshotField(ret.data, key)) =>
                  StoredAt(lsItems, key) =
                      <<Stringify(SnapshotField(ret.data, key))>>
        /\ ret.data.hasImages =>
              \A i \in 1..Len(ret.data.images) :
                  ret.data.images[i].id \in DOMAIN Images

----------------------------------------------------------------------------
(* Claims about the schema upgrade, checked under SpecUpgrade *)

\* The collections and indexes declared for version 1.
Declared ==
    [images |-> {"createdAt", "prompt", "platform"},
     layouts |-> {"imageId", "platform"},
     projects |-> {"name", "createdAt", "updatedAt"}]

C30_WitnessCurrent ==
    /\ ret.op = "open" /\ ret.ok
    /\ ret.before.ver = DB_VERSION /\ ret.before.inst = "null"
    /\ ret.before.data["images"] # <<>>

----------------------------------------------------------------------------
(* Claims about the shared connection, checked under SpecConnect *)

\* C24: since the page was loaded at most one open request has been made, and
\* every call that got a connection got the same one.
C24_OneConnectionIsShared ==
    /\ Len(conns) + Len(opening) <= 1
    /\ \A i, j \in 1..Len(calls) :
          (calls[i].conn # 0 /\ calls[j].conn # 0) =>
              calls[i].conn = calls[j].conn

----------------------------------------------------------------------------
(* Claims about a connection the runtime closes, checked under SpecReopen *)

\* C25: the cached connection is never a closed one, so that a call that
\* begins after a close requests a new connection; a call that was given a
\* connection that is still open is not failed by an earlier close, and a call
\* fails only if IndexedDB was absent when it began or its own connection was
\* closed under it.
C25_ClosedConnectionIsReopened ==
    /\ cached # 0 => conns[cached] = "open"
    /\ (cached = 0) = (dbInstance = "null")
    /\ \A c \in 1..Len(calls) :
          /\ calls[c].pc = "queued" => conns[calls[c].conn] = "open"
          /\ (calls[c].pc = "done" /\ ~calls[c].ok) =>
                \/ calls[c].conn = 0
                \/ conns[calls[c].conn] = "closed"

\* After the first connection was closed, a call was given a second one and
\* its put is stored.
C25_Witness ==
    /\ Len(conns) >= 2 /\ conns[1] = "closed"
    /\ \E c \in 1..Len(calls) :
          /\ calls[c].kind = "put" /\ calls[c].pc = "done" /\ calls[c].ok
          /\ calls[c].conn = 2
          /\ calls[c].item.id \in DOMAIN Images

----------------------------------------------------------------------------
(* Claims about two writes to one key, checked under SpecOrder *)

\* The first calls of the pairs: under SpecOrder every put call belongs to a
\* pair, and at most the page's own call comes before them.
PairStarts ==
    LET first == IF calls # <<>> /\ calls[1].kind = "init" THEN 2 ELSE 1
    IN {c \in first..(Len(calls) - 1) : (c - first) % 2 = 0}

\* No other pair writes to the id of the pair that starts at c.
OnlyWriters(c) ==
    \A e \in 1..Len(calls) :
        (calls[e].kind = "put" /\ calls[e].item.id = calls[c].item.id)
            => e \in {c, c + 1}

\* C27 as stated: once both saves of a pair have completed, the stored value
\* is that of the second call, for a settings key and for a document id.
C27_LastWriteWins ==
    /\ ret.op = "setPair" =>
          /\ ret.key \in DOMAIN lsItems
          /\ lsItems[ret.key] = Stringify(ret.second)
    /\ \A c \in PairStarts :
          (OnlyWriters(c) /\ calls[c].pc = "done" /\ calls[c + 1].pc = "done") =>
              /\ calls[c].item.id \in DOMAIN Images
              /\ Images[calls[c].item.id].prompt = calls[c + 1].item.prompt

\* C27 amended: once both saves of a pair have completed and the second one
\* succeeded, the stored value is that of the second call.
C27_LastSuccessfulWriteWins ==
    /\ (ret.op = "setPair" /\ ret.ok2) =>
          /\ ret.key \in DOMAIN lsItems
          /\ lsItems[ret.key] = Stringify(ret.second)
    /\ \A c \in PairStarts :
          (/\ OnlyWriters(c)
           /\ calls[c].pc = "done" /\ calls[c + 1].pc = "done"
           /\ calls[c + 1].ok) =>
              /\ calls[c].item.id \in DOMAIN Images
              /\ Images[calls[c].item.id].prompt = calls[c + 1].item.prompt

\* Both puts of a pair ran and the second one's prompt is stored, and a pair
\* of settings saves with different values both succeeded.
C27_Witness ==
    /\ ret.op = "setPair" /\ ret.ok1 /\ ret.ok2 /\ ret.first # ret.second
    /\ \E c \in PairStarts :
          /\ OnlyWriters(c)
          /\ calls[c].pc = "done" /\ calls[c].ok
          /\ calls[c + 1].pc = "done" /\ calls[c + 1].ok
          /\ Images[calls[c].item.id].prompt = calls[c + 1].item.prompt

====
